---- MODULE Spec2Model ----
(***************************************************************************)
(* Model of the program-identity registry (scripts/program_matcher.py) and *)
(* of the sector classifier (scripts/sector_taxonomy.py).                  *)
(*                                                                         *)
(* Text is modelled by TLA+ strings, character by character: Len, \o and   *)
(* SubSeq act on them as on Python str.  Two ASCII characters stand for    *)
(* the non-ASCII dash glyphs of _DASH_RE: "~" is U+2013 (en dash) and "_"  *)
(* is U+2014 (em dash).  Python's None is the value None below for text,   *)
(* NoneYear for a budget year, and the empty tuple for an optional value.  *)
(* Subsidy rates are fixed-point numbers, in tenths of a percentage point. *)
(***************************************************************************)
EXTENDS Integers, Sequences, FiniteSets, TLC

\* ------------------------------------------------------------ characters

None == "<None>"

NoneYear == 0 - 1

Ch(s, i) == SubSeq(s, i, i)

From(s, i) == SubSeq(s, i, Len(s))

WS == {" ", "\t", "\n"}

DIGITS == {"0", "1", "2", "3", "4", "5", "6", "7", "8", "9"}

DASHES == {"-", "~", "_"}

UPPER == "ABCDEFGHIJKLMNOPQRSTUVWXYZ"

LOWER == "abcdefghijklmnopqrstuvwxyz"

LowerSet == {Ch(LOWER, i) : i \in 1..26}

LowerCh(c) ==
  IF \E i \in 1..26 : Ch(UPPER, i) = c
  THEN Ch(LOWER, CHOOSE i \in 1..26 : Ch(UPPER, i) = c)
  ELSE c

\* \w of the regular expressions: letters, digits and the underscore.  The
\* model's "_" is a dash glyph, which is no word character.
IsWord(c) == c \in LowerSet \/ c \in DIGITS \/ (\E i \in 1..26 : Ch(UPPER, i) = c)

RECURSIVE lower(_)
lower(s) == IF s = "" THEN "" ELSE LowerCh(Ch(s, 1)) \o lower(From(s, 2))

strip(s) ==
  LET keep == {i \in 1..Len(s) : Ch(s, i) \notin WS}
  IN  IF keep = {} THEN ""
      ELSE SubSeq(s, CHOOSE i \in keep : \A j \in keep : i <= j,
                     CHOOSE i \in keep : \A j \in keep : i >= j)

\* Length of the run of characters of cls that s starts with.
RunLen(s, cls) ==
  CHOOSE k \in 0..Len(s) :
    /\ \A j \in 1..k : Ch(s, j) \in cls
    /\ (k = Len(s) \/ Ch(s, k + 1) \notin cls)

\* re.sub of the pattern [cls]+ : every maximal run becomes rep.
RECURSIVE SubRuns(_, _, _)
SubRuns(s, cls, rep) ==
  IF s = "" THEN ""
  ELSE IF Ch(s, 1) \in cls
       THEN rep \o SubRuns(From(s, RunLen(s, cls) + 1), cls, rep)
       ELSE Ch(s, 1) \o SubRuns(From(s, 2), cls, rep)

DASH_RE_sub(rep, s) == SubRuns(s, DASHES, rep)

SPACE_RE_sub(rep, s) == SubRuns(s, WS, rep)

\* _FOOTNOTE_RE = \s*\d+\s*$ : the places where the rest of s is optional
\* white space, a digit run, optional white space.  sub("") cuts s at the
\* leftmost of them; no second match can follow a match that ends the text.
FootnoteAt(s, i) ==
  \E a \in i..Len(s) : \E b \in a..Len(s) :
    /\ \A j \in i..(a - 1) : Ch(s, j) \in WS
    /\ \A j \in a..b : Ch(s, j) \in DIGITS
    /\ \A j \in (b + 1)..Len(s) : Ch(s, j) \in WS

FOOTNOTE_RE_sub(s) ==
  LET at == {i \in 1..Len(s) : FootnoteAt(s, i)}
  IN  IF at = {} THEN s
      ELSE SubSeq(s, 1, (CHOOSE i \in at : \A j \in at : i <= j) - 1)

\* _PAREN_RE = \s*\(.*?\)\s* : from i, white space, "(", the shortest text
\* without a newline up to a ")", white space.  ParenEnd is the last index
\* of the match that starts at i, 0 when none starts there.
ParenEnd(s, i) ==
  LET open == i + RunLen(From(s, i), WS)
      closes == {c \in (open + 1)..Len(s) :
                   /\ Ch(s, c) = ")"
                   /\ \A j \in (open + 1)..(c - 1) : Ch(s, j) # "\n"}
  IN  IF open > Len(s) \/ Ch(s, open) # "(" \/ closes = {} THEN 0
      ELSE LET c == CHOOSE x \in closes : \A y \in closes : x <= y
           IN  c + RunLen(From(s, c + 1), WS)

RECURSIVE PAREN_RE_sub(_, _)
PAREN_RE_sub(rep, s) ==
  IF s = "" THEN ""
  ELSE IF ParenEnd(s, 1) > 0
       THEN rep \o PAREN_RE_sub(rep, From(s, ParenEnd(s, 1) + 1))
       ELSE Ch(s, 1) \o PAREN_RE_sub(rep, From(s, 2))

\* _NONALNUM_RE = [^a-z0-9 ] : each such character becomes rep.
RECURSIVE NONALNUM_RE_sub(_, _)
NONALNUM_RE_sub(rep, s) ==
  IF s = "" THEN ""
  ELSE (IF Ch(s, 1) \in LowerSet \/ Ch(s, 1) \in DIGITS \/ Ch(s, 1) = " "
        THEN Ch(s, 1) ELSE rep) \o NONALNUM_RE_sub(rep, From(s, 2))

\* re.sub(r"\b<stem>s?\b", stem, s): prev is the character before s ("" at
\* the start of the text).  The optional s is greedy.
RECURSIVE PluralSub(_, _, _)
PluralSub(stem, prev, s) ==
  LET n == Len(stem)
      startsWord == prev = "" \/ ~IsWord(prev)
      endsAt(k) == k = Len(s) \/ ~IsWord(Ch(s, k + 1))
      hasStem == Len(s) >= n /\ SubSeq(s, 1, n) = stem
      plural == hasStem /\ Len(s) > n /\ Ch(s, n + 1) = "s" /\ endsAt(n + 1)
      single == hasStem /\ endsAt(n)
  IN  IF s = "" THEN ""
      ELSE IF startsWord /\ plural
           THEN stem \o PluralSub(stem, "s", From(s, n + 2))
      ELSE IF startsWord /\ single
           THEN stem \o PluralSub(stem, Ch(s, n), From(s, n + 1))
      ELSE Ch(s, 1) \o PluralSub(stem, Ch(s, 1), From(s, 2))

\* re.sub(r"\s+\d+$", "", s): cut at the leftmost place where the rest of s
\* is white space then digits.
TrailingNumberAt(s, i) ==
  \E a \in (i + 1)..Len(s) :
    /\ \A j \in i..(a - 1) : Ch(s, j) \in WS
    /\ \A j \in a..Len(s) : Ch(s, j) \in DIGITS

TrailingNumberSub(s) ==
  LET at == {i \in 1..Len(s) : TrailingNumberAt(s, i)}
  IN  IF at = {} THEN s
      ELSE SubSeq(s, 1, (CHOOSE i \in at : \A j \in at : i <= j) - 1)

\* ------------------------------------------------------------ normalizers

_norm(s) ==
  IF s = "" THEN ""
  ELSE strip(lower(SPACE_RE_sub(" ", DASH_RE_sub("-", s))))

_normalize_fuzzy(name) ==
  IF name = "" THEN ""
  ELSE LET n1 == lower(name)
           n2 == DASH_RE_sub(" ", n1)
           n3 == PAREN_RE_sub(" ", n2)
           n4 == NONALNUM_RE_sub(" ", n3)
           n5 == PluralSub("loan", "", n4)
           n6 == PluralSub("program", "", n5)
           n7 == PluralSub("guarantee", "", n6)
           n8 == TrailingNumberSub(n7)
       IN  strip(SPACE_RE_sub(" ", n8))

\* Mutant of OrEmpty: a missing field is passed on as it is.
OrNone(s) == s

\* s or "": None and the empty text are the falsy values of a str argument.
OrEmpty(s) == IF s = None THEN "" ELSE s

RECURSIVE JoinPipe(_)
JoinPipe(parts) ==
  IF Len(parts) = 0 THEN ""
  ELSE IF Len(parts) = 1 THEN parts[1]
  ELSE parts[1] \o "|" \o JoinPipe(Tail(parts))

\* str.split("|")
RECURSIVE SplitPipe(_)
SplitPipe(key) ==
  LET bars == {i \in 1..Len(key) : Ch(key, i) = "|"}
  IN  IF bars = {} THEN <<key>>
      ELSE LET b == CHOOSE i \in bars : \A j \in bars : i <= j
           IN  <<SubSeq(key, 1, b - 1)>> \o SplitPipe(From(key, b + 1))

ProgramPart(program) == _norm(FOOTNOTE_RE_sub(OrEmpty(program)))

normalize_program_key(agency, bureau, account, program) ==
  JoinPipe(<<_norm(OrEmpty(agency)), _norm(OrEmpty(bureau)),
             _norm(OrEmpty(account)), ProgramPart(program)>>)

\* ------------------------------------------------------------ aliases

PROGRAM_ALIASES ==
  <<
    <<"overseas private investment corporation",
      "united states international development finance corporation">>,
    <<"opic",
      "dfc">>,
    <<"office of postsecondary education",
      "office of federal student aid">>,
    <<"federal family education loan",
      "federal direct student loan">>,
    <<"stafford loans",
      "stafford">>,
    <<"stafford loan",
      "stafford">>,
    <<"subsidized stafford",
      "stafford">>,
    <<"fha-mutual mortgage insurance",
      "fha-mutual mortgage">>,
    <<"mutual mortgage insurance",
      "fha-mutual mortgage">>,
    <<"export-import bank direct loans",
      "export-import direct">>,
    <<"ex-im direct loans",
      "export-import direct">>,
    <<"7(a) general business loans",
      "7(a) loans">>,
    <<"general business loan guarantee",
      "7(a) loans">>,
    <<"section 504 certified development",
      "504 certified development company">>,
    <<"504 loans",
      "504 certified development company">>,
    <<"farm ownership-direct",
      "farm ownership">>,
    <<"farm operating-direct",
      "farm operating">>,
    <<"farm ownership loans-direct",
      "farm ownership">>,
    <<"farm operating loans-direct",
      "farm operating">>,
    <<"single family housing direct",
      "section 502">>,
    <<"single family housing guaranteed",
      "section 502 unsubsidized guaranteed">>,
    <<"multi-family housing direct",
      "section 515">>,
    <<"multi-family housing guaranteed",
      "section 538">>
  >>

\* {_norm(k): _norm(v) for k, v in PROGRAM_ALIASES.items()}, in table order;
\* of two entries with the same normalized key the later one stays.
_ALIAS_MAP ==
  [i \in 1..Len(PROGRAM_ALIASES) |->
     <<_norm(PROGRAM_ALIASES[i][1]), _norm(PROGRAM_ALIASES[i][2])>>]

InAliasMap(name) == \E i \in 1..Len(_ALIAS_MAP) : _ALIAS_MAP[i][1] = name

AliasOf(name) ==
  LET hits == {i \in 1..Len(_ALIAS_MAP) : _ALIAS_MAP[i][1] = name}
  IN  _ALIAS_MAP[CHOOSE i \in hits : \A j \in hits : i >= j][2]

_apply_aliases(key) ==
  LET parts == SplitPipe(key)
  IN  IF Len(parts) # 4 THEN key
      ELSE JoinPipe(<<parts[1],
                      IF InAliasMap(parts[2]) THEN AliasOf(parts[2]) ELSE parts[2],
                      parts[3],
                      IF InAliasMap(parts[4]) THEN AliasOf(parts[4]) ELSE parts[4]>>)

\* ------------------------------------------------------------ inputs

\* Most register calls of one run.
MaxCalls == 3

RATE_TOLERANCE == 5

\* The (agency, bureau, account, program) tuples the callers pass.
Tuples ==
  { <<"USDA", "Rural Housing Service", "", "single family housing direct">>,
    <<"USDA", "Rural Housing Service", "", "section 502">>,
    <<"USDA", "Rural Housing Service", "", "Section 502 1">>,
    <<"SBA", "", "", "Direct Loans">>,
    <<"SBA", "", "", "Direct Loan">>,
    <<"SBA", "", "", "Direct~Loans (new)">> }

Years == {NoneYear, 2026}

\* Callers that pass None or "" for hierarchy fields they do not have.
MissingTuples ==
  {<<a, b, acc, p>> : a \in {None, "", "SBA"}, b \in {None, ""},
                      acc \in {None, ""},
                      p \in {"Direct Loans", "DIRECT LOANS", ""}}

\* Callers that register one program under three bureaus of one agency.
WideTuples == {<<"EXIM", b, "", "Export Loans">> : b \in {"A", "B", "C"}}

\* Callers that report one program under two bureaus and two spellings.
MergeTuples ==
  {<<"EXIM", b, "", p>> : b \in {"A", "B"}, p \in {"Export Loans", "Export Loan"}}

\* Callers that name one program by its aliases and one bureau by its old
\* and its new name.
OrderTuples ==
  {<<"ED", "", "", p>> :
     p \in {"Stafford Loans", "Stafford Loan", "Stafford", "STAFFORD  LOANS"}}
  \cup
  {<<"DFC", b, "", "Direct Loans">> :
     b \in {"Overseas Private Investment Corporation",
            "United States International Development Finance Corporation"}}

\* Callers that report one aliased program under no bureau and under a
\* bureau that has an alias, by its old and its new name.
AliasTuples ==
  {<<"ED", b, "", p>> :
     b \in {"", "Office of Postsecondary Education"},
     p \in {"Stafford Loans", "Stafford"}}

\* Every tuple that some caller of the model passes.
CallerTuples ==
  Tuples \cup MissingTuples \cup WideTuples \cup MergeTuples \cup OrderTuples
    \cup AliasTuples

\* The normalizers are pure: their values on the texts of CallerTuples are
\* tabulated once, and register, get_id and reconcile read the table.  A text
\* outside the table is normalized on the spot.
KeyTable ==
  [t \in CallerTuples |-> normalize_program_key(t[1], t[2], t[3], t[4])]

AliasTable ==
  [k \in {KeyTable[t] : t \in CallerTuples} |-> _apply_aliases(k)]

FuzzyTable ==
  [s \in {OrEmpty(t[1]) : t \in CallerTuples}
            \cup {OrEmpty(t[4]) : t \in CallerTuples} |->
     _normalize_fuzzy(s)]

KeyOf(agency, bureau, account, program) ==
  IF <<agency, bureau, account, program>> \in DOMAIN KeyTable
  THEN KeyTable[<<agency, bureau, account, program>>]
  ELSE normalize_program_key(agency, bureau, account, program)

\* Mutant of ResolvedOf: the key is looked up as it is.
ResolvedRaw(key) == key

ResolvedOf(key) ==
  IF key \in DOMAIN AliasTable THEN AliasTable[key] ELSE _apply_aliases(key)

FuzzyOf(s) ==
  IF s \in DOMAIN FuzzyTable THEN FuzzyTable[s] ELSE _normalize_fuzzy(s)

\* ------------------------------------------------------------ registry
\* A registry value is [next_id, key_to_id, programs]: the three fields of
\* ProgramRegistry.  A dict is a function; the dicts whose order the code
\* depends on are tuples in insertion order (name_year_map is a tuple of
\* <<name, year>> pairs).  _programs is iterated in insertion order, which
\* is the order of minting, ProgramOrder below.

Contains(seq, v) == \E i \in 1..Len(seq) : seq[i] = v

\* Mutant of AppendNew: the membership test is dropped.
AppendAlways(seq, v) == Append(seq, v)

\* if v not in seq: seq.append(v)
AppendNew(seq, v) == IF Contains(seq, v) THEN seq ELSE Append(seq, v)

\* d[k] = v on a dict
Put(d, k, v) == [j \in DOMAIN d \cup {k} |-> IF j = k THEN v ELSE d[j]]

IsText(s) == s # None /\ s # ""

\* Mutant of IsYear: every budget_year counts as given.
IsYearAny(y) == TRUE

IsYear(y) == y # NoneYear /\ y # 0

DIGITCH == "0123456789"

RECURSIVE Decimal(_)
Decimal(n) ==
  IF n < 10 THEN Ch(DIGITCH, n + 1)
  ELSE Decimal(n \div 10) \o Ch(DIGITCH, (n % 10) + 1)

RECURSIVE ZeroPad(_, _)
ZeroPad(s, width) == IF Len(s) >= width THEN s ELSE ZeroPad("0" \o s, width)

\* f"P{n:03d}"
FormatPid(n) == "P" \o ZeroPad(Decimal(n), 3)

\* The number a program ID was formatted from.
RECURSIVE DigitsValue(_)
DigitsValue(s) ==
  IF s = "" THEN 0
  ELSE 10 * DigitsValue(SubSeq(s, 1, Len(s) - 1))
       + ((CHOOSE i \in 1..10 : Ch(DIGITCH, i) = Ch(s, Len(s))) - 1)

PidNumber(pid) == DigitsValue(From(pid, 2))

\* Code point order of the characters of a program ID.
CharCode(c) ==
  IF c \in DIGITS THEN 47 + (CHOOSE i \in 1..10 : Ch(DIGITCH, i) = c) ELSE 80

\* a < b on Python str
RECURSIVE StrLess(_, _)
StrLess(a, b) ==
  IF b = "" THEN FALSE
  ELSE IF a = "" THEN TRUE
  ELSE IF Ch(a, 1) # Ch(b, 1) THEN CharCode(Ch(a, 1)) < CharCode(Ch(b, 1))
  ELSE StrLess(From(a, 2), From(b, 2))

NymHas(nym, name) == \E i \in 1..Len(nym) : nym[i][1] = name

NymGet(nym, name) == nym[CHOOSE i \in 1..Len(nym) : nym[i][1] = name][2]

\* Mutant of NymUpdate: the year of a known name is always overwritten.
NymOverwrite(nym, name, yr) ==
  IF ~NymHas(nym, name) THEN Append(nym, <<name, yr>>)
  ELSE [i \in 1..Len(nym) |-> IF nym[i][1] = name THEN <<name, yr>> ELSE nym[i]]

\* if name not in nym or yr > nym[name]: nym[name] = yr
NymUpdate(nym, name, yr) ==
  IF ~NymHas(nym, name) THEN Append(nym, <<name, yr>>)
  ELSE IF yr > NymGet(nym, name)
       THEN [i \in 1..Len(nym) |-> IF nym[i][1] = name THEN <<name, yr>> ELSE nym[i]]
       ELSE nym

\* Mutant of NextPid: the number is the count of live programs plus one.
NextPidByCount(reg) == FormatPid(Cardinality(DOMAIN reg.programs) + 1)

\* pid = f"P{self._next_id:03d}"
NextPid(reg) == FormatPid(reg.next_id)

EmptyRegistry == [next_id |-> 1, key_to_id |-> <<>>, programs |-> <<>>]

\* Mutant of register: a new program is entered under its raw key only.
register_raw_only(reg, agency, bureau, account, program, budget_year) ==
  LET raw_key == KeyOf(agency, bureau, account, program)
      resolved_key == ResolvedOf(raw_key)
  IN  IF resolved_key \in DOMAIN reg.key_to_id
      THEN LET pid == reg.key_to_id[resolved_key]
               meta == reg.programs[pid]
               m2 == [meta EXCEPT
                        !.key_variants = AppendNew(@, raw_key),
                        !.name_variants =
                          IF IsText(program) THEN AppendNew(@, program) ELSE @,
                        !.budget_years_seen =
                          IF IsYear(budget_year) THEN AppendNew(@, budget_year) ELSE @,
                        !.name_year_map =
                          IF IsText(program) /\ IsYear(budget_year)
                          THEN NymUpdate(@, program, budget_year) ELSE @]
           IN  [reg |-> [reg EXCEPT !.programs[pid] = m2], ret |-> pid]
      ELSE IF raw_key # resolved_key /\ raw_key \in DOMAIN reg.key_to_id
      THEN LET pid == reg.key_to_id[raw_key]
               meta == reg.programs[pid]
               m2 == [meta EXCEPT
                        !.budget_years_seen =
                          IF IsYear(budget_year) THEN AppendNew(@, budget_year) ELSE @]
           IN  [reg |-> [reg EXCEPT !.key_to_id = Put(@, resolved_key, pid),
                                    !.programs[pid] = m2],
                ret |-> pid]
      ELSE LET pid == NextPid(reg)
               meta == [program_id |-> pid,
                        canonical_name |-> OrEmpty(program),
                        agency |-> OrEmpty(agency),
                        bureau |-> OrEmpty(bureau),
                        account |-> OrEmpty(account),
                        canonical_key |-> resolved_key,
                        key_variants |->
                          IF raw_key # resolved_key THEN <<raw_key>>
                          ELSE <<resolved_key>>,
                        name_variants |-> IF IsText(program) THEN <<program>> ELSE <<>>,
                        budget_years_seen |->
                          IF IsYear(budget_year) THEN <<budget_year>> ELSE <<>>,
                        name_year_map |->
                          IF IsText(program) /\ IsYear(budget_year)
                          THEN <<(<<program, budget_year>>)>> ELSE <<>>]
           IN  [reg |-> [next_id |-> reg.next_id + 1,
                         key_to_id |-> Put(reg.key_to_id, raw_key, pid),
                         programs |-> Put(reg.programs, pid, meta)],
                ret |-> pid]

register(reg, agency, bureau, account, program, budget_year) ==
  LET raw_key == KeyOf(agency, bureau, account, program)
      resolved_key == ResolvedOf(raw_key)
  IN  IF resolved_key \in DOMAIN reg.key_to_id
      THEN LET pid == reg.key_to_id[resolved_key]
               meta == reg.programs[pid]
               m2 == [meta EXCEPT
                        !.key_variants = AppendNew(@, raw_key),
                        !.name_variants =
                          IF IsText(program) THEN AppendNew(@, program) ELSE @,
                        !.budget_years_seen =
                          IF IsYear(budget_year) THEN AppendNew(@, budget_year) ELSE @,
                        !.name_year_map =
                          IF IsText(program) /\ IsYear(budget_year)
                          THEN NymUpdate(@, program, budget_year) ELSE @]
           IN  [reg |-> [reg EXCEPT !.programs[pid] = m2], ret |-> pid]
      ELSE IF raw_key # resolved_key /\ raw_key \in DOMAIN reg.key_to_id
      THEN LET pid == reg.key_to_id[raw_key]
               meta == reg.programs[pid]
               m2 == [meta EXCEPT
                        !.budget_years_seen =
                          IF IsYear(budget_year) THEN AppendNew(@, budget_year) ELSE @]
           IN  [reg |-> [reg EXCEPT !.key_to_id = Put(@, resolved_key, pid),
                                    !.programs[pid] = m2],
                ret |-> pid]
      ELSE LET pid == NextPid(reg)
               meta == [program_id |-> pid,
                        canonical_name |-> OrEmpty(program),
                        agency |-> OrEmpty(agency),
                        bureau |-> OrEmpty(bureau),
                        account |-> OrEmpty(account),
                        canonical_key |-> resolved_key,
                        key_variants |->
                          IF raw_key # resolved_key THEN <<raw_key>>
                          ELSE <<resolved_key>>,
                        name_variants |-> IF IsText(program) THEN <<program>> ELSE <<>>,
                        budget_years_seen |->
                          IF IsYear(budget_year) THEN <<budget_year>> ELSE <<>>,
                        name_year_map |->
                          IF IsText(program) /\ IsYear(budget_year)
                          THEN <<(<<program, budget_year>>)>> ELSE <<>>]
           IN  [reg |-> [next_id |-> reg.next_id + 1,
                         key_to_id |-> Put(Put(reg.key_to_id, resolved_key, pid),
                                           raw_key, pid),
                         programs |-> Put(reg.programs, pid, meta)],
                ret |-> pid]

\* self._key_to_id.get(resolved_key) or self._key_to_id.get(raw_key): a
\* program ID is a non-empty str, so the first hit is the result.
get_id(reg, agency, bureau, account, program) ==
  LET raw_key == KeyOf(agency, bureau, account, program)
      resolved_key == ResolvedOf(raw_key)
  IN  IF resolved_key \in DOMAIN reg.key_to_id THEN reg.key_to_id[resolved_key]
      ELSE IF raw_key \in DOMAIN reg.key_to_id THEN reg.key_to_id[raw_key]
      ELSE None

all_programs(reg) == reg.programs

\* ------------------------------------------------------------ reconcile
\* A loop is a recursive operator over the index of its sequence.  Its next
\* accumulator is bound by  CHOOSE out \in {F(v) : v \in {e}} : TRUE,  which
\* is F(e) with e evaluated once.

Range(seq) == {seq[i] : i \in 1..Len(seq)}

\* Program IDs in the iteration order of the _programs dict: the order in
\* which they were inserted, which is the order of their numbers.
OrderByNumber(P, num) ==
  [i \in 1..Cardinality(P) |->
     CHOOSE p \in P : Cardinality({q \in P : num[q] < num[p]}) = i - 1]

ProgramOrder(reg) ==
  CHOOSE out \in
    {OrderByNumber(DOMAIN reg.programs, num) :
       num \in {[p \in DOMAIN reg.programs |-> PidNumber(p)]}} : TRUE

FuzzyKey(meta) == <<FuzzyOf(meta.agency), FuzzyOf(meta.canonical_name)>>

\* fuzzy_groups.items(): the groups in the order of their first member, each
\* a tuple of program IDs in _programs order.
GroupsIn(order, key) ==
  LET first(k) == CHOOSE i \in 1..Len(order) :
                    key[order[i]] = k /\ \A j \in 1..(i - 1) : key[order[j]] # k
      K == {key[p] : p \in DOMAIN key}
  IN  [g \in 1..Cardinality(K) |->
         SelectSeq(order,
           LAMBDA p : Cardinality({k \in K : first(k) < first(key[p])}) = g - 1)]

fuzzy_groups(reg) ==
  CHOOSE out \in
    {GroupsIn(order, key) :
       order \in {ProgramOrder(reg)},
       key \in {[p \in DOMAIN reg.programs |-> FuzzyKey(reg.programs[p])]}} : TRUE

\* Mutant of pids_sorted: the program IDs alone decide the order.
pids_sorted_by_id(reg, pids) ==
  LET P == Range(pids)
      rank(p) == 1 + Cardinality({q \in P : StrLess(q, p)})
  IN  [i \in 1..Cardinality(P) |-> CHOOSE p \in P : rank(p) = i]

\* sorted(pids, key=lambda p: (-len(budget_years_seen), p))
pids_sorted(reg, pids) ==
  LET P == Range(pids)
      years(p) == Len(reg.programs[p].budget_years_seen)
      before(p, q) == years(p) > years(q) \/ (years(p) = years(q) /\ StrLess(p, q))
      rank(p) == 1 + Cardinality({q \in P : before(q, p)})
  IN  [i \in 1..Cardinality(P) |-> CHOOSE p \in P : rank(p) = i]

Abs(v) == IF v < 0 THEN 0 - v ELSE v

\* Mutant of _rates_consistent: a difference equal to the tolerance blocks.
_rates_consistent_ge(pid_a, pid_b, subsidy_rates, tolerance) ==
  IF subsidy_rates = <<>> THEN TRUE
  ELSE LET m == subsidy_rates[1]
           rates_a == IF pid_a \in DOMAIN m THEN m[pid_a] ELSE <<>>
           rates_b == IF pid_b \in DOMAIN m THEN m[pid_b] ELSE <<>>
           common == DOMAIN rates_a \cap DOMAIN rates_b
       IN  IF common = {} THEN TRUE
           ELSE \A yr \in common :
                  (rates_a[yr] # <<>> /\ rates_b[yr] # <<>>)
                    => ~(Abs(rates_a[yr][1] - rates_b[yr][1]) >= tolerance)

\* subsidy_rates is <<>> for None and <<m>> for the dict m, which maps a
\* program ID to a dict from cohort year to <<>> (None) or <<rate>>.
_rates_consistent(pid_a, pid_b, subsidy_rates, tolerance) ==
  IF subsidy_rates = <<>> THEN TRUE
  ELSE LET m == subsidy_rates[1]
           rates_a == IF pid_a \in DOMAIN m THEN m[pid_a] ELSE <<>>
           rates_b == IF pid_b \in DOMAIN m THEN m[pid_b] ELSE <<>>
           common == DOMAIN rates_a \cap DOMAIN rates_b
       IN  IF common = {} THEN TRUE
           ELSE \A yr \in common :
                  (rates_a[yr] # <<>> /\ rates_b[yr] # <<>>)
                    => ~(Abs(rates_a[yr][1] - rates_b[yr][1]) > tolerance)

\* for v in more[i:]: if v not in seq: seq.append(v)
RECURSIVE AppendAllNew(_, _, _)
AppendAllNew(seq, more, i) ==
  IF i > Len(more) THEN seq
  ELSE CHOOSE out \in
         {AppendAllNew(nxt, more, i + 1) : nxt \in {AppendNew(seq, more[i])}} : TRUE

\* for name, yr in src_nym.items()[i:]:
\*     if name not in tgt_nym or yr > tgt_nym[name]: tgt_nym[name] = yr
RECURSIVE NymMerge(_, _, _)
NymMerge(tgt_nym, src_nym, i) ==
  IF i > Len(src_nym) THEN tgt_nym
  ELSE CHOOSE out \in
         {NymMerge(nxt, src_nym, i + 1) :
            nxt \in {NymUpdate(tgt_nym, src_nym[i][1], src_nym[i][2])}} : TRUE

\* Mutant of Redirect: no key is redirected.
RedirectNone(k2i, source_pid, target_pid) == k2i

\* for key, pid in self._key_to_id.items():
\*     if pid == source_pid: self._key_to_id[key] = target_pid
Redirect(k2i, source_pid, target_pid) ==
  [k \in DOMAIN k2i |-> IF k2i[k] = source_pid THEN target_pid ELSE k2i[k]]

\* _merge that also takes the canonical_name of the source.
_merge_rename(reg, source_pid, target_pid) ==
  LET source == reg.programs[source_pid]
      target == reg.programs[target_pid]
      t2 == [target EXCEPT
               !.canonical_name = source.canonical_name,
               !.budget_years_seen = AppendAllNew(@, source.budget_years_seen, 1),
               !.name_variants = AppendAllNew(@, source.name_variants, 1),
               !.key_variants = AppendAllNew(@, source.key_variants, 1),
               !.name_year_map = NymMerge(@, source.name_year_map, 1)]
  IN  [next_id |-> reg.next_id,
       key_to_id |-> Redirect(reg.key_to_id, source_pid, target_pid),
       programs |-> [p \in DOMAIN reg.programs \ {source_pid} |->
                       IF p = target_pid THEN t2 ELSE reg.programs[p]]]

\* _merge without the del of the source identity.
_merge_keep_source(reg, source_pid, target_pid) ==
  LET source == reg.programs[source_pid]
      target == reg.programs[target_pid]
      t2 == [target EXCEPT
               !.budget_years_seen = AppendAllNew(@, source.budget_years_seen, 1),
               !.name_variants = AppendAllNew(@, source.name_variants, 1),
               !.key_variants = AppendAllNew(@, source.key_variants, 1),
               !.name_year_map = NymMerge(@, source.name_year_map, 1)]
  IN  [next_id |-> reg.next_id,
       key_to_id |-> Redirect(reg.key_to_id, source_pid, target_pid),
       programs |-> [p \in DOMAIN reg.programs |->
                       IF p = target_pid THEN t2 ELSE reg.programs[p]]]

_merge(reg, source_pid, target_pid) ==
  LET source == reg.programs[source_pid]
      target == reg.programs[target_pid]
      t2 == [target EXCEPT
               !.budget_years_seen = AppendAllNew(@, source.budget_years_seen, 1),
               !.name_variants = AppendAllNew(@, source.name_variants, 1),
               !.key_variants = AppendAllNew(@, source.key_variants, 1),
               !.name_year_map = NymMerge(@, source.name_year_map, 1)]
  IN  [next_id |-> reg.next_id,
       key_to_id |-> Redirect(reg.key_to_id, source_pid, target_pid),
       programs |-> [p \in DOMAIN reg.programs \ {source_pid} |->
                       IF p = target_pid THEN t2 ELSE reg.programs[p]]]

\* for source in pids_sorted[j:]: acc is [reg, merges, blocked], the registry
\* and the two counters.
RECURSIVE MergeSources(_, _, _, _, _, _)
MergeSources(acc, target, sorted, j, subsidy_rates, rate_tolerance) ==
  IF j > Len(sorted) THEN acc
  ELSE CHOOSE out \in
         {MergeSources(nxt, target, sorted, j + 1, subsidy_rates, rate_tolerance) :
            nxt \in {IF _rates_consistent(target, sorted[j], subsidy_rates,
                                          rate_tolerance)
                     THEN [reg |-> _merge(acc.reg, sorted[j], target),
                           merges |-> acc.merges + 1,
                           blocked |-> acc.blocked]
                     ELSE [acc EXCEPT !.blocked = @ + 1]}} : TRUE

\* The body of the loop over the groups, for one group of two or more.
MergeGroup(acc, pids, subsidy_rates, rate_tolerance) ==
  CHOOSE out \in
    {MergeSources(acc, sorted[1], sorted, 2, subsidy_rates, rate_tolerance) :
       sorted \in {pids_sorted(acc.reg, pids)}} : TRUE

\* for (_fa, _fp), pids in fuzzy_groups.items()[g:]
RECURSIVE MergeGroups(_, _, _, _, _)
MergeGroups(acc, groups, g, subsidy_rates, rate_tolerance) ==
  IF g > Len(groups) THEN acc
  ELSE CHOOSE out \in
         {MergeGroups(nxt, groups, g + 1, subsidy_rates, rate_tolerance) :
            nxt \in {IF Len(groups[g]) < 2 THEN acc
                     ELSE MergeGroup(acc, groups[g], subsidy_rates,
                                     rate_tolerance)}} : TRUE

\* Mutant of reconcile: programs_after is counted before the merges.
reconcile_stale(reg, subsidy_rates, rate_tolerance) ==
  CHOOSE out \in
    {[reg |-> done.reg,
      ret |-> [merges |-> done.merges,
               blocked_by_rates |-> done.blocked,
               programs_after |-> Cardinality(DOMAIN reg.programs)]] :
       done \in {MergeGroups([reg |-> reg, merges |-> 0, blocked |-> 0],
                             fuzzy_groups(reg), 1, subsidy_rates,
                             rate_tolerance)}} : TRUE

reconcile(reg, subsidy_rates, rate_tolerance) ==
  CHOOSE out \in
    {[reg |-> done.reg,
      ret |-> [merges |-> done.merges,
               blocked_by_rates |-> done.blocked,
               programs_after |-> Cardinality(DOMAIN done.reg.programs)]] :
       done \in {MergeGroups([reg |-> reg, merges |-> 0, blocked |-> 0],
                             fuzzy_groups(reg), 1, subsidy_rates,
                             rate_tolerance)}} : TRUE

\* Mutant of BestName: the first name of the map, whatever its year.
BestNameFirst(nym) == nym[1][1]

\* max(nym, key=lambda n: nym[n]): the first name, in insertion order, whose
\* year is the largest.
BestName(nym) ==
  nym[CHOOSE i \in 1..Len(nym) :
        /\ \A j \in 1..Len(nym) : nym[j][2] <= nym[i][2]
        /\ \A j \in 1..(i - 1) : nym[j][2] < nym[i][2]][1]

finalize_canonical_names(reg) ==
  [reg EXCEPT !.programs =
     [p \in DOMAIN reg.programs |->
        IF Len(reg.programs[p].name_year_map) = 0 THEN reg.programs[p]
        ELSE [reg.programs[p] EXCEPT
                !.canonical_name = BestName(reg.programs[p].name_year_map)]]]

\* ------------------------------------------------------------ rates

CohortYears == {2020}

Rates == {<<10>>, <<20>>}

\* The dicts cohort year -> rate of one program: no cohort, or every cohort
\* year with a rate or None.
RateDicts == {<<>>} \cup [CohortYears -> Rates]

\* The subsidy_rates arguments: None, or a dict over the live program IDs.
RateChoices(reg) == {<<>>} \cup {<<m>> : m \in [DOMAIN reg.programs -> RateDicts]}

\* ------------------------------------------------------------ state

VARIABLES
  next_id,      \* ProgramRegistry._next_id
  key_to_id,    \* ProgramRegistry._key_to_id
  programs,     \* ProgramRegistry._programs
  calls,        \* the register calls made so far, with what each returned
  last,         \* the last operation, its arguments and what it returned
  probe         \* a pure function under test: its input and its result

vars == <<next_id, key_to_id, programs, calls, last, probe>>

Reg == [next_id |-> next_id, key_to_id |-> key_to_id, programs |-> programs]

SetReg(reg) ==
  /\ next_id' = reg.next_id
  /\ key_to_id' = reg.key_to_id
  /\ programs' = reg.programs

Idle == [fn |-> "none"]

RegistryInit ==
  /\ next_id = EmptyRegistry.next_id
  /\ key_to_id = EmptyRegistry.key_to_id
  /\ programs = EmptyRegistry.programs
  /\ calls = <<>>
  /\ last = [op |-> "init", t |-> <<>>, year |-> NoneYear, ret |-> None]

Init == RegistryInit /\ probe = Idle

Register ==
  \E t \in Tuples : \E y \in Years :
    /\ Len(calls) < MaxCalls
    /\ \E r \in {register(Reg, t[1], t[2], t[3], t[4], y)} :
         /\ SetReg(r.reg)
         /\ calls' = Append(calls, [t |-> t, year |-> y, ret |-> r.ret])
         /\ last' = [op |-> "register", t |-> t, year |-> y, ret |-> r.ret]
    /\ UNCHANGED probe

\* Mutant of GetId: a lookup stores the raw key of what it found.
GetIdCaching ==
  \E t \in Tuples :
    \E pid \in {get_id(Reg, t[1], t[2], t[3], t[4])} :
      /\ last' = [op |-> "get_id", t |-> t, year |-> NoneYear, ret |-> pid]
      /\ key_to_id' = IF pid = None THEN key_to_id
                      ELSE Put(key_to_id, KeyOf(t[1], t[2], t[3], t[4]), pid)
      /\ UNCHANGED <<next_id, programs, calls, probe>>

GetId ==
  \E t \in Tuples :
    /\ last' = [op |-> "get_id", t |-> t, year |-> NoneYear,
                ret |-> get_id(Reg, t[1], t[2], t[3], t[4])]
    /\ UNCHANGED <<next_id, key_to_id, programs, calls, probe>>

Reconcile ==
  \E sr \in RateChoices(Reg) :
    /\ \E r \in {reconcile(Reg, sr, RATE_TOLERANCE)} :
         /\ SetReg(r.reg)
         /\ last' = [op |-> "reconcile", t |-> <<>>, year |-> NoneYear, ret |-> r.ret]
    /\ UNCHANGED <<calls, probe>>

Finalize ==
  /\ \E reg \in {finalize_canonical_names(Reg)} : SetReg(reg)
  /\ last' = [op |-> "finalize", t |-> <<>>, year |-> NoneYear, ret |-> None]
  /\ UNCHANGED <<calls, probe>>

\* ------------------------------------------------------------ key probe
\* normalize_program_key and register applied to a tuple and to a second
\* spelling of it, in a fresh registry.

MaxRun == 2

MaxFootnote == 2

UpperCh(c) ==
  IF c \in LowerSet
  THEN Ch(UPPER, CHOOSE i \in 1..26 : Ch(LOWER, i) = c)
  ELSE c

RECURSIVE upper(_)
upper(s) == IF s = "" THEN "" ELSE UpperCh(Ch(s, 1)) \o upper(From(s, 2))

RECURSIVE Repeat(_, _)
Repeat(c, n) == IF n = 0 THEN "" ELSE c \o Repeat(c, n - 1)

\* s with every occurrence of the character c replaced by the text r.
RECURSIVE ReplaceCh(_, _, _)
ReplaceCh(s, c, r) ==
  IF s = "" THEN ""
  ELSE (IF Ch(s, 1) = c THEN r ELSE Ch(s, 1)) \o ReplaceCh(From(s, 2), c, r)

DashRuns == {Repeat(g, n) : g \in DASHES, n \in 1..MaxRun} \cup {"-~"}

SpaceRuns == {Repeat(w, n) : w \in {" ", "\t"}, n \in 1..MaxRun}

Footnotes == {Decimal(n) : n \in 1..MaxFootnote}

\* The spellings of s that differ from it in the way named by kind.
Spellings(kind, s) ==
  CASE kind = "dash" -> {ReplaceCh(s, "-", r) : r \in DashRuns} \ {s}
    [] kind = "case" -> {upper(s), lower(s)} \ {s}
    [] kind = "space" ->
         ({ReplaceCh(s, " ", r) : r \in SpaceRuns}
            \cup {r \o s : r \in SpaceRuns} \cup {s \o r : r \in SpaceRuns}) \ {s}
    [] kind = "footnote" ->
         {s \o f : f \in Footnotes} \cup {s \o " " \o f : f \in Footnotes}
           \cup {s \o f \o " " : f \in Footnotes}

KeyKinds == {"dash", "case", "space", "footnote"}

KeyBases ==
  { <<"Department of Agriculture", "Rural Housing Service",
      "Rural Housing Insurance Fund", "Section 502">>,
    <<"Export-Import Bank", None, "Ex-Im Loans", "Direct Loans-Tied Aid">>,
    <<"SBA", "", "Business Loans", "Direct Loans">> }

\* The pairs (kind, second spelling) of a tuple: one component is respelled;
\* a footnote goes on the program component only.
KeyVariants(t) ==
  { <<kind, [t EXCEPT ![c] = v]>> :
      <<kind, c, v>> \in
        UNION { {<<k, i, w>> : w \in Spellings(k, t[i])} :
                  <<k, i>> \in {<<k, i>> \in KeyKinds \X (1..4) :
                                  IsText(t[i]) /\ (k = "footnote" => i = 4)} } }

KeyInit ==
  /\ RegistryInit
  /\ \E t \in KeyBases : \E kv \in KeyVariants(t) :
       probe = [fn |-> "key", kind |-> kv[1], base |-> t, variant |-> kv[2],
                keys |-> <<>>, ids |-> <<>>]

\* normalize_program_key of the two spellings.
NormalizeKeys ==
  /\ probe.keys = <<>>
  /\ probe' = [probe EXCEPT !.keys =
       << normalize_program_key(probe.base[1], probe.base[2],
                                probe.base[3], probe.base[4]),
          normalize_program_key(probe.variant[1], probe.variant[2],
                                probe.variant[3], probe.variant[4]) >>]
  /\ UNCHANGED <<next_id, key_to_id, programs, calls, last>>

\* register of the first spelling, then of the second.
RegisterSpelling ==
  /\ probe.keys # <<>>
  /\ Len(probe.ids) < 2
  /\ \E t \in {IF probe.ids = <<>> THEN probe.base ELSE probe.variant} :
       \E r \in {register(Reg, t[1], t[2], t[3], t[4], NoneYear)} :
         /\ SetReg(r.reg)
         /\ calls' = Append(calls, [t |-> t, year |-> NoneYear, ret |-> r.ret])
         /\ last' = [op |-> "register", t |-> t, year |-> NoneYear, ret |-> r.ret]
         /\ probe' = [probe EXCEPT !.ids = Append(probe.ids, r.ret)]

KeyNext == NormalizeKeys \/ RegisterSpelling

SpecKey == KeyInit /\ [][KeyNext]_vars

\* ------------------------------------------------------------ sector taxonomy

\* The keys of the SECTORS dict.
SECTORS ==
  { "agriculture", "housing", "education", "small_business",
    "energy_environment", "international", "veterans", "healthcare",
    "transportation", "disaster_assistance", "defense_security",
    "other_government" }

\* _norm of sector_taxonomy.py.
sector_norm(s) ==
  IF s = "" THEN ""
  ELSE strip(lower(SPACE_RE_sub(" ", DASH_RE_sub("-", s))))

\* pattern in s, for two str.
InStr(pattern, s) ==
  \E i \in 0..(Len(s) - Len(pattern)) : SubSeq(s, i + 1, i + Len(pattern)) = pattern

_PROGRAM_OVERRIDES ==
  << <<"sba disaster", "disaster_assistance">>,
     <<"disaster loans", "disaster_assistance">>,
     <<"disaster assistance", "disaster_assistance">>,
     <<"rural housing", "housing">>,
     <<"section 502", "housing">>,
     <<"section 504", "housing">>,
     <<"section 515", "housing">>,
     <<"section 538", "housing">>,
     <<"flood insurance", "disaster_assistance">>,
     <<"national flood", "disaster_assistance">>,
     <<"vendee", "veterans">>,
     <<"native american veteran", "veterans">>,
     <<"veterans housing", "veterans">>,
     <<"ginnie mae", "housing">>,
     <<"government national mortgage", "housing">>,
     <<"fha", "housing">>,
     <<"mutual mortgage", "housing">>,
     <<"community development", "housing">>,
     <<"section 108", "housing">>,
     <<"indian housing", "housing">>,
     <<"indian home", "housing">>,
     <<"tifia", "transportation">>,
     <<"railroad", "transportation">>,
     <<"defense production act", "defense_security">> >>

\* The dicts of rules, in insertion order.
_BUREAU_RULES ==
  << <<"farm service agency", "agriculture">>,
     <<"rural business-cooperative service", "agriculture">>,
     <<"rural utilities service", "agriculture">>,
     <<"forest service", "agriculture">>,
     <<"rural housing service", "housing">>,
     <<"housing programs", "housing">>,
     <<"public and indian housing programs", "housing">>,
     <<"community planning and development", "housing">>,
     <<"government national mortgage association", "housing">>,
     <<"office of postsecondary education", "education">>,
     <<"office of federal student aid", "education">>,
     <<"energy programs", "energy_environment">>,
     <<"environmental protection agency", "energy_environment">>,
     <<"administration of foreign affairs", "international">>,
     <<"international security assistance", "international">>,
     <<"multilateral assistance", "international">>,
     <<"agency for international development", "international">>,
     <<"united states international development finance corporation", "international">>,
     <<"export-import bank of the united states", "international">>,
     <<"overseas private investment corporation", "international">>,
     <<"health resources and services administration", "healthcare">>,
     <<"administration for a healthy america", "healthcare">>,
     <<"benefits programs", "veterans">>,
     <<"maritime administration", "transportation">>,
     <<"federal emergency management agency", "disaster_assistance">>,
     <<"small business administration", "small_business">>,
     <<"procurement", "defense_security">>,
     <<"national oceanic and atmospheric administration", "other_government">>,
     <<"national institute of standards and technology", "other_government">>,
     <<"bureau of indian affairs", "other_government">>,
     <<"office of the secretary", "other_government">>,
     <<"departmental offices", "other_government">>,
     <<"corps of engineers-civil works", "other_government">>,
     <<"corps of engineers--civil works", "other_government">> >>

_AGENCY_RULES ==
  << <<"department of agriculture", "agriculture">>,
     <<"department of education", "education">>,
     <<"department of energy", "energy_environment">>,
     <<"department of housing and urban development", "housing">>,
     <<"department of veterans affairs", "veterans">>,
     <<"department of health and human services", "healthcare">>,
     <<"department of transportation", "transportation">>,
     <<"department of homeland security", "disaster_assistance">>,
     <<"department of defense", "defense_security">>,
     <<"department of defense-military programs", "defense_security">>,
     <<"department of state", "international">>,
     <<"department of the interior", "other_government">>,
     <<"department of commerce", "other_government">>,
     <<"department of the treasury", "other_government">>,
     <<"department of labor", "other_government">>,
     <<"small business administration", "small_business">>,
     <<"export-import bank of the united states", "international">>,
     <<"international assistance programs", "international">>,
     <<"other independent agencies", "other_government">>,
     <<"other defense civil programs", "defense_security">> >>

\* Mutant of DefaultSector: a key that SECTORS does not have.
DefaultUnclassified == "unclassified"

\* return "other_government"
DefaultSector == "other_government"

\* The sector of the first pair of rules whose index is in hits.
FirstOf(rules, hits) == rules[CHOOSE i \in hits : \A j \in hits : i <= j][2]

\* for pattern, sector in _PROGRAM_OVERRIDES:
\*     if pattern in n_prog or pattern in n_account
OverrideHits(n_prog, n_account) ==
  {i \in 1..Len(_PROGRAM_OVERRIDES) :
     InStr(_PROGRAM_OVERRIDES[i][1], n_prog)
     \/ InStr(_PROGRAM_OVERRIDES[i][1], n_account)}

\* for pattern, sector in rules.items():
\*     if _norm(pattern) == n or _norm(pattern) in n
RuleHits(rules, n) ==
  {i \in 1..Len(rules) : rules[i][1] = n \/ InStr(rules[i][1], n)}

\* The rules with _norm(pattern) for pattern, computed once.
NormRules(rules) ==
  [i \in 1..Len(rules) |-> <<sector_norm(rules[i][1]), rules[i][2]>>]

BUREAU_RULES_norm == NormRules(_BUREAU_RULES)

AGENCY_RULES_norm == NormRules(_AGENCY_RULES)

\* Mutant of ByBureauOrAgency: the agency rules are tried first.
ByAgencyOrBureau(n_bureau, n_agency) ==
  IF n_agency # "" /\ RuleHits(AGENCY_RULES_norm, n_agency) # {}
  THEN FirstOf(AGENCY_RULES_norm, RuleHits(AGENCY_RULES_norm, n_agency))
  ELSE IF n_bureau # "" /\ RuleHits(BUREAU_RULES_norm, n_bureau) # {}
       THEN FirstOf(BUREAU_RULES_norm, RuleHits(BUREAU_RULES_norm, n_bureau))
       ELSE DefaultSector

\* Priority 2 and 3 of classify_program, and the default.
ByBureauOrAgency(n_bureau, n_agency) ==
  IF n_bureau # "" /\ RuleHits(BUREAU_RULES_norm, n_bureau) # {}
  THEN FirstOf(BUREAU_RULES_norm, RuleHits(BUREAU_RULES_norm, n_bureau))
  ELSE IF n_agency # "" /\ RuleHits(AGENCY_RULES_norm, n_agency) # {}
       THEN FirstOf(AGENCY_RULES_norm, RuleHits(AGENCY_RULES_norm, n_agency))
       ELSE DefaultSector

ClassifyAgencies ==
  { None, "", "Small Business Administration", "Department of Agriculture",
    "DEPARTMENT  OF  THE TREASURY", "National Credit Union Administration" }

ClassifyBureaus ==
  { None, "", "Small Business Administration", "Rural Housing Service",
    "Corps of Engineers~~Civil Works", "Bureau of the Fiscal Service" }

ClassifyAccounts ==
  { None, "", "Disaster Loans Program Account",
    "Business Loans Program Account", "FHA-Mutual Mortgage Insurance" }

ClassifyPrograms ==
  { None, "", "SBA Disaster Loans", "Section 502 Direct",
    "7(a) General Business Loans", "Railroad Rehabilitation",
    "Rural  Housing Site Loans", "Farm Ownership" }

\* _norm is pure: its values on the texts above are tabulated once.
SECTOR_NORM_table ==
  [s \in {OrEmpty(x) : x \in ClassifyAgencies \cup ClassifyBureaus
                              \cup ClassifyAccounts \cup ClassifyPrograms} |->
     sector_norm(s)]

NormOf(s) ==
  IF s \in DOMAIN SECTOR_NORM_table THEN SECTOR_NORM_table[s] ELSE sector_norm(s)

\* Mutant of classify_program: the bureau and agency rules come first, and
\* the overrides only when they give the default.
classify_rules_first(agency, bureau, account, program) ==
  LET n_prog == NormOf(OrEmpty(program))
      n_bureau == NormOf(OrEmpty(bureau))
      n_agency == NormOf(OrEmpty(agency))
      n_account == NormOf(OrEmpty(account))
  IN  IF ByBureauOrAgency(n_bureau, n_agency) # DefaultSector
      THEN ByBureauOrAgency(n_bureau, n_agency)
      ELSE IF OverrideHits(n_prog, n_account) # {}
           THEN FirstOf(_PROGRAM_OVERRIDES, OverrideHits(n_prog, n_account))
           ELSE DefaultSector

classify_program(agency, bureau, account, program) ==
  LET n_prog == NormOf(OrEmpty(program))
      n_bureau == NormOf(OrEmpty(bureau))
      n_agency == NormOf(OrEmpty(agency))
      n_account == NormOf(OrEmpty(account))
  IN  IF OverrideHits(n_prog, n_account) # {}
      THEN FirstOf(_PROGRAM_OVERRIDES, OverrideHits(n_prog, n_account))
      ELSE ByBureauOrAgency(n_bureau, n_agency)

ClassifyInit ==
  /\ RegistryInit
  /\ \E a \in ClassifyAgencies : \E b \in ClassifyBureaus :
       \E acc \in ClassifyAccounts : \E p \in ClassifyPrograms :
         probe = [fn |-> "classify", args |-> <<a, b, acc, p>>, out |-> <<>>]

Classify ==
  /\ probe.out = <<>>
  /\ \E sector \in {classify_program(probe.args[1], probe.args[2],
                                     probe.args[3], probe.args[4])} :
       probe' = [probe EXCEPT !.out = <<sector>>]
  /\ UNCHANGED <<next_id, key_to_id, programs, calls, last>>

ClassifyNext == Classify

SpecClassify == ClassifyInit /\ [][ClassifyNext]_vars

\* ------------------------------------------------------------ exact rules
\* classify_program on bureaus and agencies that are keys of the rule tables,
\* as the tables spell them and as the sheets do, under any agency.

ExactBureaus ==
  {_BUREAU_RULES[i][1] : i \in 1..Len(_BUREAU_RULES)}
    \cup {None, "Housing Programs", "Bureau of the Fiscal Service"}

ExactAgencies ==
  {_AGENCY_RULES[i][1] : i \in 1..Len(_AGENCY_RULES)}
    \cup {None, "Department of Defense--Military Programs",
          "National Credit Union Administration"}

ExactPrograms == {"Direct Loans", "SBA Disaster Loans"}

ExactInit ==
  /\ RegistryInit
  /\ \E a \in ExactAgencies : \E b \in ExactBureaus : \E p \in ExactPrograms :
       probe = [fn |-> "classify", args |-> <<a, b, "", p>>, out |-> <<>>]

SpecExact == ExactInit /\ [][ClassifyNext]_vars

\* ------------------------------------------------------------ cells
\* A sheet (DataFrame read with header=None) is a tuple of rows of one width.
\* A cell is a text, the missing value NaN, or a number; the float that is n
\* thousandths is Float(n), a text that begins with "#", which no text cell
\* of the model does.  Column k of the code is Col(row, k).

NaN == "<NaN>"

Float(n) == "#" \o (IF n < 0 THEN "-" \o Decimal(0 - n) ELSE Decimal(n))

\* isinstance(val, str) fails: the cell holds a number.
IsNumber(val) == val # "" /\ Ch(val, 1) = "#"

\* row[k]: the label k of a row; KeyError when the sheet has no column k.
HasCol(row, k) == k < Len(row)

Col(row, k) == row[k + 1]

\* s.rstrip(chars) and s.lstrip(chars)
RStripChars(s, chars) ==
  SubSeq(s, 1, CHOOSE n \in 0..Len(s) :
                 /\ \A j \in (n + 1)..Len(s) : Ch(s, j) \in chars
                 /\ (n = 0 \/ Ch(s, n) \notin chars))

LStripChars(s, chars) == From(s, RunLen(s, chars) + 1)

\* s.split(':')[0]
BeforeColon(s) ==
  SubSeq(s, 1, CHOOSE n \in 0..Len(s) :
                 /\ \A j \in 1..n : Ch(s, j) # ":"
                 /\ (n = Len(s) \/ Ch(s, n + 1) = ":"))

EndsWithColon(s) == s # "" /\ Ch(s, Len(s)) = ":"

\* float(s) succeeds: an optional sign, then digits with at most one point
\* and at least one digit, inside optional white space.  (The texts of this
\* model hold no exponent, underscore, "inf" or "nan".)
IsFloatText(s) ==
  \E body \in {LStripChars(strip(s), {"+", "-"})} :
    /\ Len(strip(s)) - Len(body) <= 1
    /\ \E i \in 1..Len(body) : Ch(body, i) \in DIGITS
    /\ \A i \in 1..Len(body) : Ch(body, i) \in DIGITS \cup {"."}
    /\ Cardinality({i \in 1..Len(body) : Ch(body, i) = "."}) <= 1

\* float(s) in thousandths, for a text with at most three decimals.
FloatValue(s) ==
  LET body == LStripChars(strip(s), {"+", "-"})
      whole == SubSeq(body, 1, RunLen(body, DIGITS))
      frac == SubSeq(From(body, Len(whole) + 2) \o "000", 1, 3)
      mag == 1000 * DigitsValue(whole) + DigitsValue(frac)
  IN  IF Ch(strip(s), 1) = "-" THEN 0 - mag ELSE mag

\* try: return float(val) / except ValueError: return val
FloatOrText(val) == IF IsFloatText(val) THEN Float(FloatValue(val)) ELSE val

\* parse_value of parse_table2.py; with "*" among the placeholders it is
\* parse_value of parse_table8.py and parse_table9.py.
ParseValueWith(placeholders, val) ==
  IF val = NaN THEN None
  ELSE IF IsNumber(val) THEN val
  ELSE IF strip(val) \in placeholders THEN None
  ELSE FloatOrText(strip(val))

parse_value(val) == ParseValueWith({"......", "", "-"}, val)

parse_value8(val) == ParseValueWith({"......", "", "-", "*"}, val)

\* parse_value of parse_table6.py: leading digits and spaces are cut first.
parse_value6(val) ==
  IF val = NaN THEN None
  ELSE IF IsNumber(val) THEN val
  ELSE IF strip(val) \in {"......", "", "-"} THEN None
  ELSE IF LStripChars(strip(val), DIGITS \cup {" "}) \in {"", "......", "-"} THEN None
  ELSE FloatOrText(LStripChars(strip(val), DIGITS \cup {" "}))

\* ------------------------------------------------------------ extraction
\* _parse_from_df of the table parsers.  The walk over the rows carries the
\* locals of the function in a record st; st.raised tells that an exception
\* left the function, and then st.programs is not returned.  A record of
\* st.programs notes in its field row the index of the row it came from.

KNOWN_BUREAUS ==
  { "Farm Service Agency", "Rural Housing Service",
    "Rural Business-Cooperative Service", "Rural Utilities Service",
    "Forest Service", "Energy Programs",
    "Health Resources and Services Administration",
    "Administration for a Healthy America",
    "Public and Indian Housing Programs",
    "Community Planning and Development", "Housing Programs",
    "Government National Mortgage Association", "Bureau of Indian Affairs",
    "International Security Assistance", "Multilateral Assistance",
    "Agency for International Development",
    "United States International Development Finance Corporation",
    "Overseas Private Investment Corporation", "Benefits Programs",
    "Small Business Administration",
    "Export-Import Bank of the United States", "Office of the Secretary" }

\* The locals before the loop.
ExtractStart ==
  [agency |-> None, bureau |-> None, account |-> None, program |-> None,
   prev_was_blank |-> TRUE, programs |-> <<>>, raised |-> FALSE]

\* str(row[0]).strip() if pd.notna(row[0]) else ''
Col0(row) == IF Col(row, 0) = NaN THEN "" ELSE strip(Col(row, 0))

\* is_program = '......' in col0 or ('...' in col0 and ':' in col0)
is_program(col0) == InStr("......", col0) \/ (InStr("...", col0) /\ InStr(":", col0))

\* Mutant of LabelRow2: a bureau label leaves the account as it is.
LabelRow2KeepAccount(st, col0, known_bureaus) ==
  IF EndsWithColon(col0)
  THEN IF strip(SubSeq(col0, 1, Len(col0) - 1)) \in known_bureaus
       THEN [st EXCEPT !.bureau = strip(SubSeq(col0, 1, Len(col0) - 1))]
       ELSE [st EXCEPT !.account = strip(SubSeq(col0, 1, Len(col0) - 1))]
  ELSE IF ~InStr("Agency", col0) /\ ~InStr("BEA", col0)
       THEN [st EXCEPT !.agency = col0, !.bureau = None, !.account = None]
       ELSE st

\* The label rows of parse_table2: a bureau or account, else an agency.
LabelRow2(st, col0, known_bureaus) ==
  IF EndsWithColon(col0)
  THEN IF strip(SubSeq(col0, 1, Len(col0) - 1)) \in known_bureaus
       THEN [st EXCEPT !.bureau = strip(SubSeq(col0, 1, Len(col0) - 1)),
                       !.account = None]
       ELSE [st EXCEPT !.account = strip(SubSeq(col0, 1, Len(col0) - 1))]
  ELSE IF ~InStr("Agency", col0) /\ ~InStr("BEA", col0)
       THEN [st EXCEPT !.agency = col0, !.bureau = None, !.account = None]
       ELSE st

\* One pass of the loop body of parse_table2._parse_from_df.
Row2(st, row, idx, cohort_years, known_bureaus) ==
  IF ~HasCol(row, 0) THEN [st EXCEPT !.raised = TRUE]
  ELSE IF Col0(row) = "" THEN st
  ELSE IF ~is_program(Col0(row)) THEN LabelRow2(st, Col0(row), known_bureaus)
  ELSE IF ~HasCol(row, 6) THEN [st EXCEPT !.raised = TRUE]
  ELSE IF \A k \in {2, 3, 5, 6} : parse_value(Col(row, k)) = None THEN st
  ELSE IF ~HasCol(row, 7) THEN [st EXCEPT !.raised = TRUE]
  ELSE [st EXCEPT !.programs = Append(@,
         [row |-> idx, agency |-> st.agency, bureau |-> st.bureau,
          account |-> st.account,
          program |-> RStripChars(strip(BeforeColon(Col0(row))), {"."}),
          bea_category |-> parse_value(Col(row, 1)),
          cohorts |->
            << [year |-> cohort_years[1],
                subsidy_rate_percent |-> parse_value(Col(row, 2)),
                obligations_thousands |-> parse_value(Col(row, 3)),
                average_loan_size_thousands |-> parse_value(Col(row, 4))],
               [year |-> cohort_years[2],
                subsidy_rate_percent |-> parse_value(Col(row, 5)),
                obligations_thousands |-> parse_value(Col(row, 6)),
                average_loan_size_thousands |-> parse_value(Col(row, 7))] >>])]

\* name = col0.rstrip('0123456789').rstrip(':').strip() of parse_table6.
LabelName6(col0) == strip(RStripChars(RStripChars(col0, DIGITS), {":"}))

\* One pass of the loop body of parse_table6._parse_from_df.
Row6(st, row, idx, cohort_year, known_bureaus) ==
  IF ~HasCol(row, 0) THEN [st EXCEPT !.raised = TRUE]
  ELSE IF Col0(row) = "" THEN st
  ELSE IF is_program(Col0(row))
  THEN IF ~HasCol(row, 1) THEN [st EXCEPT !.raised = TRUE]
       ELSE IF parse_value6(Col(row, 1)) = None THEN st
       ELSE IF ~HasCol(row, 14) THEN [st EXCEPT !.raised = TRUE]
       ELSE [st EXCEPT !.programs = Append(@,
         [row |-> idx, agency |-> st.agency, bureau |-> st.bureau,
          account |-> st.account,
          program |-> RStripChars(RStripChars(strip(BeforeColon(Col0(row))), {"."}),
                                  DIGITS \cup {" "}),
          cohort_year |-> cohort_year,
          subsidy_rate_percent |-> parse_value6(Col(row, 1)),
          subsidy_composition |->
            [defaults_net_of_recoveries |-> parse_value6(Col(row, 2)),
             interest |-> parse_value6(Col(row, 3)),
             fees |-> parse_value6(Col(row, 4)),
             other |-> parse_value6(Col(row, 5))],
          loan_characteristics |->
            [maturity_years |-> parse_value6(Col(row, 6)),
             borrower_rate_percent |-> parse_value6(Col(row, 7)),
             grace_period_years |-> parse_value6(Col(row, 8)),
             upfront_fees_percent |-> parse_value6(Col(row, 9)),
             annual_fees_percent |-> parse_value6(Col(row, 10)),
             other_fees_percent |-> parse_value6(Col(row, 11)),
             default_rate_percent |-> parse_value6(Col(row, 12)),
             recovery_rate_percent |-> parse_value6(Col(row, 13)),
             guarantee_percent |-> parse_value6(Col(row, 14))]])]
  ELSE IF EndsWithColon(RStripChars(Col0(row), DIGITS))
  THEN IF LabelName6(Col0(row)) \in known_bureaus
       THEN [st EXCEPT !.bureau = LabelName6(Col0(row)), !.account = None]
       ELSE [st EXCEPT !.account = LabelName6(Col0(row))]
  ELSE IF \A w \in {"Agency", "BEA", "Subsidy"} : ~InStr(w, Col0(row))
       THEN [st EXCEPT !.agency = RStripChars(Col0(row), DIGITS \cup {" "}),
                       !.bureau = None, !.account = None]
       ELSE st

\* get_indent: len(val_str) - len(val_str.lstrip())
get_indent(val) == IF val = NaN THEN 0 ELSE RunLen(val, WS)

\* fy_pattern = ^FY\s*(\d{4}): the four digits, or "" when col0 does not match.
FyDigits(col0) ==
  IF Len(col0) >= 2 /\ SubSeq(col0, 1, 2) = "FY"
  THEN LET rest == LStripChars(From(col0, 3), WS)
       IN  IF RunLen(rest, DIGITS) >= 4 THEN SubSeq(rest, 1, 4) ELSE ""
  ELSE ""

\* Mutant of LabelRow8: a bureau or account label leaves the program as it is.
LabelRow8KeepProgram(st, col0, indent, known_bureaus) ==
  IF EndsWithColon(col0) \/ EndsWithColon(RStripChars(col0, DIGITS))
  THEN LET name == strip(RStripChars(RStripChars(col0, {":"}), DIGITS \cup {" "}))
       IN  IF indent = 0
           THEN IF name \notin known_bureaus /\ st.bureau # None
                THEN [st EXCEPT !.account = name]
                ELSE [st EXCEPT !.bureau = name, !.account = None]
           ELSE IF indent <= 3
                THEN [st EXCEPT !.account = name]
                ELSE [st EXCEPT !.program = name]
  ELSE IF indent >= 4
       THEN [st EXCEPT !.program = strip(RStripChars(col0, {"."}))]
       ELSE IF indent = 0 /\ InStr(Ch(col0, 1), UPPER)
            THEN IF \E w \in {"Agency", "Bureau", "Subsidy", "Cohort"} : InStr(w, col0)
                 THEN st
                 ELSE IF st.prev_was_blank
                      THEN [st EXCEPT !.agency = RStripChars(col0, DIGITS \cup {" "}),
                                      !.bureau = None, !.account = None,
                                      !.program = None]
                      ELSE [st EXCEPT !.program = strip(RStripChars(col0, {"."}))]
            ELSE st

\* The label rows of parse_table8: bureau, account or program by indent.
LabelRow8(st, col0, indent, known_bureaus) ==
  IF EndsWithColon(col0) \/ EndsWithColon(RStripChars(col0, DIGITS))
  THEN LET name == strip(RStripChars(RStripChars(col0, {":"}), DIGITS \cup {" "}))
       IN  IF indent = 0
           THEN IF name \notin known_bureaus /\ st.bureau # None
                THEN [st EXCEPT !.account = name, !.program = None]
                ELSE [st EXCEPT !.bureau = name, !.account = None, !.program = None]
           ELSE IF indent <= 3
                THEN [st EXCEPT !.account = name, !.program = None]
                ELSE [st EXCEPT !.program = name]
  ELSE IF indent >= 4
       THEN [st EXCEPT !.program = strip(RStripChars(col0, {"."}))]
       ELSE IF indent = 0 /\ InStr(Ch(col0, 1), UPPER)
            THEN IF \E w \in {"Agency", "Bureau", "Subsidy", "Cohort"} : InStr(w, col0)
                 THEN st
                 ELSE IF st.prev_was_blank
                      THEN [st EXCEPT !.agency = RStripChars(col0, DIGITS \cup {" "}),
                                      !.bureau = None, !.account = None,
                                      !.program = None]
                      ELSE [st EXCEPT !.program = strip(RStripChars(col0, {"."}))]
            ELSE st

\* Mutant of AddCohort8: the cohort goes to the front of the list.
AddCohort8Front(progs, st, idx, cohort_data) ==
  LET same == {i \in 1..Len(progs) :
                 /\ progs[i].agency = st.agency /\ progs[i].bureau = st.bureau
                 /\ progs[i].account = st.account
                 /\ progs[i].program = st.program}
  IN  IF same = {}
      THEN Append(progs,
             [row |-> idx, agency |-> st.agency, bureau |-> st.bureau,
              account |-> st.account, program |-> st.program,
              cohorts |-> <<cohort_data>>])
      ELSE [progs EXCEPT ![CHOOSE i \in same : TRUE].cohorts =
              <<cohort_data>> \o @]

\* programs[key]['cohorts'].append(cohort_data), after programs[key] was
\* created when the key is new; programs keeps the order of insertion.
AddCohort8(progs, st, idx, cohort_data) ==
  LET same == {i \in 1..Len(progs) :
                 /\ progs[i].agency = st.agency /\ progs[i].bureau = st.bureau
                 /\ progs[i].account = st.account
                 /\ progs[i].program = st.program}
  IN  IF same = {}
      THEN Append(progs,
             [row |-> idx, agency |-> st.agency, bureau |-> st.bureau,
              account |-> st.account, program |-> st.program,
              cohorts |-> <<cohort_data>>])
      ELSE [progs EXCEPT ![CHOOSE i \in same : TRUE].cohorts =
              Append(@, cohort_data)]

\* One pass of the loop body of parse_table8._parse_from_df.
Row8(st, row, idx, known_bureaus) ==
  IF ~HasCol(row, 0) THEN [st EXCEPT !.raised = TRUE]
  ELSE IF Col0(row) = "" THEN [st EXCEPT !.prev_was_blank = TRUE]
  ELSE IF FyDigits(Col0(row)) = ""
  THEN [LabelRow8(st, Col0(row), get_indent(Col(row, 0)), known_bureaus)
          EXCEPT !.prev_was_blank = FALSE]
  ELSE IF st.program = None THEN [st EXCEPT !.prev_was_blank = FALSE]
  ELSE IF ~HasCol(row, 8) THEN [st EXCEPT !.raised = TRUE]
  ELSE [st EXCEPT !.prev_was_blank = FALSE,
                  !.programs = AddCohort8(@, st, idx,
         [row |-> idx, cohort_year |-> DigitsValue(FyDigits(Col0(row))),
          original_subsidy_rate_percent |-> parse_value8(Col(row, 1)),
          current_reestimated_rate_percent |-> parse_value8(Col(row, 2)),
          change_due_to_interest_rates_pct_pts |-> parse_value8(Col(row, 3)),
          change_due_to_technical_assumptions_pct_pts |-> parse_value8(Col(row, 4)),
          current_reestimate_amount_thousands |-> parse_value8(Col(row, 5)),
          net_lifetime_reestimate_thousands |-> parse_value8(Col(row, 6)),
          net_lifetime_reestimate_excl_interest_thousands |-> parse_value8(Col(row, 7)),
          total_disbursements_to_date_thousands |-> parse_value8(Col(row, 8)),
          outstanding_balance_thousands |->
            parse_value8(IF HasCol(row, 9) THEN Col(row, 9) ELSE NaN)])]

\* has_data = pd.notna(row[1]) and str(row[1]).strip() not in ('', 'NaN')
has_data(cell) == cell # NaN /\ strip(cell) \notin {"", "NaN"}

\* One pass of the loop body of parse_table9._parse_from_df; its parse_value
\* is that of parse_table8.
Row9(st, row, idx, known_bureaus) ==
  IF ~HasCol(row, 0) THEN [st EXCEPT !.raised = TRUE]
  ELSE IF Col0(row) = "" THEN st
  ELSE IF ~HasCol(row, 1) THEN [st EXCEPT !.raised = TRUE]
  ELSE IF /\ has_data(Col(row, 1))
          /\ (InStr("...", Col0(row)) \/ EndsWithColon(Col0(row)))
  THEN IF ~HasCol(row, 10) THEN [st EXCEPT !.raised = TRUE]
       ELSE [st EXCEPT !.programs = Append(@,
         [row |-> idx, agency |-> st.agency, bureau |-> st.bureau,
          account |-> st.account,
          program |-> RStripChars(strip(BeforeColon(Col0(row))), {"."}),
          disbursement_schedule_percent |->
            [k \in 1..10 |-> parse_value8(Col(row, k))]])]
  ELSE IF EndsWithColon(Col0(row)) \/ EndsWithColon(RStripChars(Col0(row), DIGITS))
  THEN IF get_indent(Col(row, 0)) = 0
       THEN [st EXCEPT !.bureau = strip(RStripChars(RStripChars(Col0(row), {":"}),
                                                     DIGITS \cup {" "})),
                       !.account = None]
       ELSE IF get_indent(Col(row, 0)) <= 3
            THEN [st EXCEPT !.account =
                    strip(RStripChars(RStripChars(Col0(row), {":"}),
                                      DIGITS \cup {" "}))]
            ELSE st
  ELSE IF /\ get_indent(Col(row, 0)) = 0 /\ InStr(Ch(Col0(row), 1), UPPER)
          /\ \A w \in {"Agency", "Bureau", "Percentage"} : ~InStr(w, Col0(row))
       THEN [st EXCEPT !.agency = RStripChars(Col0(row), DIGITS \cup {" "}),
                       !.bureau = None, !.account = None]
       ELSE st

\* for idx in range(2, len(df)): the rows from index idx on, one parser's
\* loop body on each; an exception ends the walk.
RECURSIVE Rows(_, _, _, _, _, _)
Rows(table, st, df, idx, arg, known_bureaus) ==
  IF idx >= Len(df) \/ st.raised THEN st
  ELSE CHOOSE out \in
         { Rows(table, next, df, idx + 1, arg, known_bureaus) :
             next \in { CASE table = 2 ->
                               Row2(st, df[idx + 1], idx, arg, known_bureaus)
                           [] table = 6 ->
                               Row6(st, df[idx + 1], idx, arg, known_bureaus)
                           [] table = 8 ->
                               Row8(st, df[idx + 1], idx, known_bureaus)
                           [] table = 9 ->
                               Row9(st, df[idx + 1], idx, known_bureaus) } } : TRUE

\* parse_table2._parse_from_df(df, cohort_years, known_bureaus)
parse_table2(df, cohort_years, known_bureaus) ==
  Rows(2, ExtractStart, df, 2, cohort_years, known_bureaus)

\* parse_table6._parse_from_df(df, cohort_year, known_bureaus)
parse_table6(df, cohort_year, known_bureaus) ==
  Rows(6, ExtractStart, df, 2, cohort_year, known_bureaus)

\* parse_table8._parse_from_df(df, known_bureaus)
parse_table8(df, known_bureaus) ==
  Rows(8, ExtractStart, df, 2, <<>>, known_bureaus)

\* parse_table9._parse_from_df(df, known_bureaus)
parse_table9(df, known_bureaus) ==
  Rows(9, ExtractStart, df, 2, <<>>, known_bureaus)

\* ------------------------------------------------------------ extraction probe

MaxBody == 3

\* The sheets are rectangular (a DataFrame): every row has the sheet's width.
\* 8, 15 and 9 columns are what parse_table2, parse_table6 and parse_table8
\* index without a guard.
ExtractWidths == {4, 9, 16}

ExtractTables == {2, 6, 8}

Data ==
  <<"1.2", "5000", "50", "......", "2.5", "7", "-", "10",
    "0.5", "3", "4", "5", "6", "8", "9">>

DataRow(col0, width) == <<col0>> \o SubSeq(Data, 1, width - 1)

LabelRow(col0, width) == <<col0>> \o [i \in 1..(width - 1) |-> ""]

RowKinds(width) ==
  {LabelRow("Department of Housing", width),
   LabelRow("Mortgage Insurance:", width),
   DataRow("Guaranteed Loans.......", width),
   LabelRow("    Risk Share Loans", width),
   DataRow("FY 2020", width),
   DataRow("FY2021 1", width),
   LabelRow(NaN, width)}

Bodies(width) == UNION {[1..n -> RowKinds(width)] : n \in 0..MaxBody}

\* With or without the two heading rows that the loop skips.
Headers(width) ==
  {<<>>, <<LabelRow("Table", width), LabelRow("Agency and Program", width)>>}

Sheets ==
  UNION {{h \o b : h \in Headers(w), b \in Bodies(w)} : w \in ExtractWidths}

BureauLookups == {KNOWN_BUREAUS, {"Mortgage Insurance"}}

\* _parse_from_df of the module parse_table<table>.
parse_from_df(table, df, known_bureaus) ==
  CASE table = 2 -> parse_table2(df, <<2025, 2026>>, known_bureaus)
    [] table = 6 -> parse_table6(df, 2026, known_bureaus)
    [] table = 8 -> parse_table8(df, known_bureaus)

ExtractInit ==
  /\ RegistryInit
  /\ \E table \in ExtractTables : \E df \in Sheets : \E kb \in BureauLookups :
       probe = [fn |-> "extract", table |-> table, df |-> df,
                known_bureaus |-> kb, runs |-> 0, out |-> ExtractStart]

\* One run of the parser on the sheet; a second run is a second call on
\* the same rows.
Extract ==
  /\ probe.runs \in {0, 1}
  /\ \E out \in {parse_from_df(probe.table, probe.df, probe.known_bureaus)} :
       probe' = [probe EXCEPT !.runs = @ + 1, !.out = out]
  /\ UNCHANGED <<next_id, key_to_id, programs, calls, last>>

ExtractNext == Extract

SpecExtract == ExtractInit /\ [][ExtractNext]_vars

\* ------------------------------------------------------------ row walk
\* The loop of _parse_from_df taken one row at a time: the locals of the
\* function after the rows read so far, and those rows.

MaxWalk == 4

\* The sheets of the walk are complete: 16 columns, so that no cell is missing.
WalkWidth == Len(Data) + 1

\* First cells of every kind of row: agency names (one holding a header
\* word), labels with a colon (a known bureau, another label, one indented),
\* program rows with and without a sentinel, a sentinel row that ends in a
\* colon, a cohort row and a blank row.
WalkRows(table) ==
  {LabelRow("Department of Housing", WalkWidth),
   LabelRow("Agency for International Development", WalkWidth),
   LabelRow("Housing Programs:", WalkWidth),
   LabelRow("Mortgage Insurance:", WalkWidth),
   LabelRow(NaN, WalkWidth)}
  \cup
  (IF table = 8
   THEN {LabelRow("  Housing Programs:", WalkWidth),
         LabelRow("    Risk Share Loans", WalkWidth),
         DataRow("FY 2020", WalkWidth)}
   ELSE {DataRow("Guaranteed Loans.......", WalkWidth),
         LabelRow("Loan Guarantees......:", WalkWidth)})
  \cup
  (IF table = 9 THEN {LabelRow("  Housing Programs:", WalkWidth)} ELSE {})

WalkTables == {2, 6, 8, 9}

WalkInit ==
  /\ RegistryInit
  /\ \E table \in WalkTables : \E kb \in BureauLookups :
       probe = [fn |-> "walk", table |-> table, known_bureaus |-> kb,
                rows |-> <<>>, st |-> ExtractStart]

\* The loop body on the row of index idx = 2 + the number of rows read.
WalkRow ==
  /\ Len(probe.rows) < MaxWalk
  /\ \E row \in WalkRows(probe.table) :
     \E st \in {CASE probe.table = 2 ->
                     Row2(probe.st, row, 2 + Len(probe.rows), <<2025, 2026>>,
                          probe.known_bureaus)
                  [] probe.table = 6 ->
                     Row6(probe.st, row, 2 + Len(probe.rows), 2026,
                          probe.known_bureaus)
                  [] probe.table = 8 ->
                     Row8(probe.st, row, 2 + Len(probe.rows),
                          probe.known_bureaus)
                  [] probe.table = 9 ->
                     Row9(probe.st, row, 2 + Len(probe.rows),
                          probe.known_bureaus)} :
       probe' = [probe EXCEPT !.rows = Append(@, row), !.st = st]
  /\ UNCHANGED <<next_id, key_to_id, programs, calls, last>>

WalkNext == WalkRow

SpecWalk == WalkInit /\ [][WalkNext]_vars

\* ------------------------------------------------------------ cell probe

CellBodies ==
  {"", "......", "-", "*", "5000", "5,000", "1.2", "1 200", "-0.5", "+7",
   "n/a", "Direct Loans", "1,2a", ".", "--", "1.2.3"}

CellPads == {"", " ", "  "}

\* Raw cells: a missing cell, numbers as the reader delivers them, and texts.
Cells ==
  {NaN, Float(0), Float(1500)}
    \cup {l \o b \o r : l \in CellPads, b \in CellBodies, r \in CellPads}

CellTables == {2, 8}

\* parse_value of the module parse_table<table>.
parse_value_of(table, val) ==
  CASE table = 2 -> parse_value(val)
    [] table = 6 -> parse_value6(val)
    [] table = 8 -> parse_value8(val)

CellInit ==
  /\ RegistryInit
  /\ \E table \in CellTables : \E val \in Cells :
       probe = [fn |-> "parse_value", table |-> table, val |-> val, out |-> <<>>]

ParseValue ==
  /\ probe.out = <<>>
  /\ \E out \in {parse_value_of(probe.table, probe.val)} :
       probe' = [probe EXCEPT !.out = <<out>>]
  /\ UNCHANGED <<next_id, key_to_id, programs, calls, last>>

CellNext == ParseValue

SpecCell == CellInit /\ [][CellNext]_vars

\* ------------------------------------------------------------ numeric cells
\* Text cells that denote a decimal number, as a sheet holds them, given to
\* parse_value of parse_table2 and of parse_table6 and, as the subsidy-rate
\* cell of a program row, to the loop body of parse_table6.

NumericBodies ==
  {"0", "7", "50", "100", "5000", "12.5", "1.2", "0.5", "3.25", "10.0",
   ".5", "-0.5", "-3", "+7", "-12.5", "0.125"}

NumericCells == {l \o b \o r : l \in CellPads, b \in NumericBodies, r \in CellPads}

\* A complete program row of table 6 whose subsidy-rate cell is val.
NumericRow(val) == <<"Guaranteed Loans.......", val>> \o SubSeq(Data, 2, Len(Data))

NumericInit ==
  /\ RegistryInit
  /\ \E val \in NumericCells :
       probe = [fn |-> "numeric", val |-> val, out2 |-> <<>>, out6 |-> <<>>,
                st |-> ExtractStart]

\* parse_table2.parse_value(val)
ParseNumeric2 ==
  /\ probe.out2 = <<>>
  /\ \E out \in {parse_value(probe.val)} :
       probe' = [probe EXCEPT !.out2 = <<out>>]
  /\ UNCHANGED <<next_id, key_to_id, programs, calls, last>>

\* parse_table6.parse_value(val), and the program row with that cell.
ParseNumeric6 ==
  /\ probe.out6 = <<>>
  /\ \E out \in {parse_value6(probe.val)} :
     \E st \in {Row6(ExtractStart, NumericRow(probe.val), 2, 2026, KNOWN_BUREAUS)} :
       probe' = [probe EXCEPT !.out6 = <<out>>, !.st = st]
  /\ UNCHANGED <<next_id, key_to_id, programs, calls, last>>

NumericNext == ParseNumeric2 \/ ParseNumeric6

SpecNumeric == NumericInit /\ [][NumericNext]_vars

\* ------------------------------------------------------------ idempotence probe
\* The identity normalizers applied to a program name and then to their own
\* output.

IdemBases ==
  {"Direct Loans", "Stafford Loans", "Section 502", "Ex-Im Direct Loans"}

\* What follows a program name in a label: nothing, footnote markers, a
\* number with punctuation after it, a parenthetical before a marker.
IdemTails == {"", " 1", "1", " 12 ", " 1.", " 1)", " 1 2", " (new) 3"}

IdemNames == {b \o t : b \in IdemBases, t \in IdemTails}

\* The hierarchy above the program names: its bureau has an alias.
IdemAgency == "Department of Education"

IdemBureau == "Office of Postsecondary Education"

IdemInit ==
  /\ RegistryInit
  /\ \E name \in IdemNames :
       probe = [fn |-> "idem", name |-> name,
                prog |-> <<>>, fuzzy |-> <<>>, key |-> <<>>]

\* _norm(_FOOTNOTE_RE.sub("", program or "")), of the name and then of its
\* own output.
ApplyProgramPart ==
  /\ Len(probe.prog) < 2
  /\ \E arg \in {IF probe.prog = <<>> THEN probe.name
                  ELSE probe.prog[Len(probe.prog)]} :
     \E out \in {ProgramPart(arg)} :
       probe' = [probe EXCEPT !.prog = Append(@, out)]
  /\ UNCHANGED <<next_id, key_to_id, programs, calls, last>>

\* _normalize_fuzzy, of the name and then of its own output.
ApplyFuzzy ==
  /\ Len(probe.fuzzy) < 2
  /\ \E arg \in {IF probe.fuzzy = <<>> THEN probe.name
                  ELSE probe.fuzzy[Len(probe.fuzzy)]} :
     \E out \in {_normalize_fuzzy(arg)} :
       probe' = [probe EXCEPT !.fuzzy = Append(@, out)]
  /\ UNCHANGED <<next_id, key_to_id, programs, calls, last>>

\* _apply_aliases, of the key of the name and then of its own output.
ApplyAliases ==
  /\ Len(probe.key) < 2
  /\ \E arg \in {IF probe.key = <<>>
                  THEN normalize_program_key(IdemAgency, IdemBureau, None,
                                             probe.name)
                  ELSE probe.key[Len(probe.key)]} :
     \E out \in {_apply_aliases(arg)} :
       probe' = [probe EXCEPT !.key = Append(@, out)]
  /\ UNCHANGED <<next_id, key_to_id, programs, calls, last>>

IdemNext == ApplyProgramPart \/ ApplyFuzzy \/ ApplyAliases

SpecIdem == IdemInit /\ [][IdemNext]_vars

\* ------------------------------------------------------------ pipeline

MaxTables == 2

PipelineYears == {2025, 2026}

\* Table 11 has no parser and no file; discover_available never lists it.
PipelineTables == {2, 6, 11}

\* The raw directory: the (year, table) pairs that resolve() finds a file for.
RawDirs == SUBSET (PipelineYears \X {2, 6})

\* discover_available(start_year, end_year) over the raw directory.
discover_available(files, start_year, end_year) ==
  {k \in files : k[1] \in start_year..end_year /\ k[2] \in 1..10}

\* for year in range(start_year, end_year + 1): for table in tables:
\* the pairs in the order of the two loops.
PipelinePairs(start_year, end_year, tables) ==
  [k \in 1..((IF end_year < start_year THEN 0 ELSE end_year - start_year + 1)
               * Len(tables)) |->
     <<start_year + ((k - 1) \div Len(tables)),
       tables[((k - 1) % Len(tables)) + 1]>>]

PairsOf(st) == PipelinePairs(st.start_year, st.end_year, st.tables)

\* Mutant of OnException: the exception is swallowed without an entry.
OnExceptionDropped(st, key) == [st EXCEPT !.pos = @ + 1]

\* except Exception as e: results["failed"].append(...); the entry is
\* kept as the manifest keeps it, without the traceback.
OnException(st, key) ==
  [st EXCEPT !.pos = @ + 1,
             !.failed = Append(@, [year |-> key[1], table |-> key[2]])]

PipelineInit ==
  /\ RegistryInit
  /\ \E start_year \in PipelineYears : \E end_year \in PipelineYears :
     \E tables \in UNION {[1..n -> PipelineTables] : n \in 0..MaxTables} :
     \E files \in RawDirs :
       probe = [fn |-> "run_pipeline", start_year |-> start_year,
                end_year |-> end_year, tables |-> tables,
                available |-> discover_available(files, start_year, end_year),
                pos |-> 0, success |-> <<>>, failed |-> <<>>, skipped |-> <<>>,
                manifest |-> <<>>]

\* if key not in available: results["skipped"].append(...); continue
PipelineSkip ==
  /\ probe.pos < Len(PairsOf(probe))
  /\ \E key \in {PairsOf(probe)[probe.pos + 1]} :
       /\ key \notin probe.available
       /\ probe' = [probe EXCEPT !.pos = @ + 1,
                      !.skipped = Append(@, [year |-> key[1], table |-> key[2]])]
  /\ UNCHANGED <<next_id, key_to_id, programs, calls, last>>

\* parse_one and json.dump return: results["success"].append(...)
PipelineSuccess ==
  /\ probe.pos < Len(PairsOf(probe))
  /\ \E key \in {PairsOf(probe)[probe.pos + 1]} :
       /\ key \in probe.available
       /\ probe' = [probe EXCEPT !.pos = @ + 1,
                      !.success = Append(@, [year |-> key[1], table |-> key[2]])]
  /\ UNCHANGED <<next_id, key_to_id, programs, calls, last>>

\* parse_one, open or json.dump raises an Exception.
PipelineFail ==
  /\ probe.pos < Len(PairsOf(probe))
  /\ \E key \in {PairsOf(probe)[probe.pos + 1]} :
       /\ key \in probe.available
       /\ probe' = OnException(probe, key)
  /\ UNCHANGED <<next_id, key_to_id, programs, calls, last>>

\* After the loops: the manifest is built and written.
WriteManifest ==
  /\ probe.pos = Len(PairsOf(probe))
  /\ probe.manifest = <<>>
  /\ probe' = [probe EXCEPT !.manifest =
       <<[year_range |-> <<probe.start_year, probe.end_year>>,
          tables |-> probe.tables,
          summary |-> [success |-> Len(probe.success),
                       failed |-> Len(probe.failed),
                       skipped |-> Len(probe.skipped)],
          success |-> probe.success, failed |-> probe.failed,
          skipped |-> probe.skipped]>>]
  /\ UNCHANGED <<next_id, key_to_id, programs, calls, last>>

PipelineNext == PipelineSkip \/ PipelineSuccess \/ PipelineFail \/ WriteManifest

\* The function is sequential code: a step that can be taken is taken.
SpecPipeline == PipelineInit /\ [][PipelineNext]_vars /\ WF_vars(PipelineNext)

\* ------------------------------------------------------------ missing fields

MaxMissing == 3

MissingInit ==
  /\ RegistryInit
  /\ probe = [fn |-> "missing", n |-> 0]

RegisterMissing ==
  \E t \in MissingTuples : \E y \in Years :
    /\ probe.n < MaxMissing
    /\ \E r \in {register(Reg, t[1], t[2], t[3], t[4], y)} :
         /\ SetReg(r.reg)
         /\ last' = [op |-> "register", t |-> t, year |-> y, ret |-> r.ret]
    /\ probe' = [probe EXCEPT !.n = @ + 1]
    /\ UNCHANGED calls

MissingNext == RegisterMissing

SpecMissing == MissingInit /\ [][MissingNext]_vars

\* ------------------------------------------------------------ wide IDs

WideMinted == 997

MaxWide == 3

\* The key of the n-th program of a long run: one program of one agency,
\* reported under the bureau "Office n".
WideKey(n) == normalize_program_key("SBA", "Office " \o Decimal(n), "", "Direct Loans")

\* The registry after register("SBA", "Office n", "", "Direct Loans") for
\* n = 1..WideMinted and one reconcile(): the identities share a fuzzy key,
\* P001 absorbed the others, and the next number is WideMinted + 1.
WideRegistry ==
  [next_id |-> WideMinted + 1,
   key_to_id |-> [k \in {WideKey(n) : n \in 1..WideMinted} |-> FormatPid(1)],
   programs |->
     Put(<<>>, FormatPid(1),
         [program_id |-> FormatPid(1),
          canonical_name |-> "Direct Loans",
          agency |-> "SBA",
          bureau |-> "Office 1",
          account |-> "",
          canonical_key |-> WideKey(1),
          key_variants |-> [n \in 1..WideMinted |-> WideKey(n)],
          name_variants |-> <<"Direct Loans">>,
          budget_years_seen |-> <<>>,
          name_year_map |-> <<>>])]

WideInit ==
  /\ next_id = WideRegistry.next_id
  /\ key_to_id = WideRegistry.key_to_id
  /\ programs = WideRegistry.programs
  /\ calls = <<>>
  /\ last = [op |-> "init", t |-> <<>>, year |-> NoneYear, ret |-> None]
  /\ probe = [fn |-> "wide", n |-> 0]

RegisterWide ==
  \E t \in WideTuples : \E y \in Years :
    /\ probe.n < MaxWide
    /\ \E r \in {register(Reg, t[1], t[2], t[3], t[4], y)} :
         /\ SetReg(r.reg)
         /\ last' = [op |-> "register", t |-> t, year |-> y, ret |-> r.ret]
    /\ probe' = [probe EXCEPT !.n = @ + 1]
    /\ UNCHANGED calls

\* reconcile() with its default arguments.
ReconcileWide ==
  /\ last.op # "reconcile"
  /\ \E r \in {reconcile(Reg, <<>>, RATE_TOLERANCE)} :
       /\ SetReg(r.reg)
       /\ last' = [op |-> "reconcile", t |-> <<>>, year |-> NoneYear, ret |-> r.ret]
  /\ UNCHANGED <<calls, probe>>

WideNext == RegisterWide \/ ReconcileWide

SpecWide == WideInit /\ [][WideNext]_vars

\* ------------------------------------------------------------ rates probe

\* Rates in tenths of a percentage point, or <<>> for None.
ProbeRates == {<<>>, <<10>>, <<15>>, <<16>>}

ProbeCohorts == {2020, 2021}

\* {cohort_year: rate} of one program, over any set of cohort years.
ProbeRateDicts == UNION {[ys -> ProbeRates] : ys \in SUBSET ProbeCohorts}

ProbePids == {FormatPid(1), FormatPid(2)}

\* subsidy_rates: None, or a dict over any set of the program IDs.
ProbeSubsidyRates ==
  {<<>>} \cup {<<m>> : m \in UNION {[ps -> ProbeRateDicts] : ps \in SUBSET ProbePids}}

ProbeTolerances == {0, RATE_TOLERANCE}

RatesInit ==
  /\ RegistryInit
  /\ \E sr \in ProbeSubsidyRates : \E tol \in ProbeTolerances :
       probe = [fn |-> "_rates_consistent", pid_a |-> FormatPid(1),
                pid_b |-> FormatPid(2), subsidy_rates |-> sr,
                tolerance |-> tol, out |-> <<>>]

RatesConsistent ==
  /\ probe.out = <<>>
  /\ \E out \in {_rates_consistent(probe.pid_a, probe.pid_b,
                                   probe.subsidy_rates, probe.tolerance)} :
       probe' = [probe EXCEPT !.out = <<out>>]
  /\ UNCHANGED <<next_id, key_to_id, programs, calls, last>>

RatesNext == RatesConsistent

SpecRates == RatesInit /\ [][RatesNext]_vars

\* ------------------------------------------------------------ merge probe

MaxMerge == 3

MergeYears == {NoneYear, 2024, 2025}

MergeInit == RegistryInit /\ probe = [fn |-> "merge", n |-> 0]

RegisterMerge ==
  \E t \in MergeTuples : \E y \in MergeYears :
    /\ probe.n < MaxMerge
    /\ \E r \in {register(Reg, t[1], t[2], t[3], t[4], y)} :
         /\ SetReg(r.reg)
         /\ last' = [op |-> "register", t |-> t, year |-> y, ret |-> r.ret]
    /\ probe' = [probe EXCEPT !.n = @ + 1]
    /\ UNCHANGED calls

\* reconcile() with its default arguments.
ReconcileMerge ==
  /\ last.op = "register"
  /\ \E r \in {reconcile(Reg, <<>>, RATE_TOLERANCE)} :
       /\ SetReg(r.reg)
       /\ last' = [op |-> "reconcile", t |-> <<>>, year |-> NoneYear, ret |-> r.ret]
  /\ UNCHANGED <<calls, probe>>

MergeNext == RegisterMerge \/ ReconcileMerge

SpecMerge == MergeInit /\ [][MergeNext]_vars

\* ------------------------------------------------------------ naming probe
\* register with two spellings and several years, reconcile and
\* finalize_canonical_names in any order; calls keeps what was registered.

MaxNaming == 3

NamingInit == RegistryInit /\ probe = [fn |-> "naming", n |-> 0]

RegisterNaming ==
  \E t \in MergeTuples : \E y \in MergeYears :
    /\ probe.n < MaxNaming
    /\ \E r \in {register(Reg, t[1], t[2], t[3], t[4], y)} :
         /\ SetReg(r.reg)
         /\ calls' = Append(calls, [t |-> t, year |-> y, ret |-> r.ret])
         /\ last' = [op |-> "register", t |-> t, year |-> y, ret |-> r.ret]
    /\ probe' = [probe EXCEPT !.n = @ + 1]

NamingNext == RegisterNaming \/ ReconcileMerge \/ Finalize

SpecNaming == NamingInit /\ [][NamingNext]_vars

\* ------------------------------------------------------------ order probe
\* register calls only, on a fresh registry: the state before reconcile.

MaxOrder == 3

OrderInit == RegistryInit /\ probe = [fn |-> "order", n |-> 0]

RegisterOrder ==
  \E t \in OrderTuples : \E y \in Years :
    /\ probe.n < MaxOrder
    /\ \E r \in {register(Reg, t[1], t[2], t[3], t[4], y)} :
         /\ SetReg(r.reg)
         /\ calls' = Append(calls, [t |-> t, year |-> y, ret |-> r.ret])
         /\ last' = [op |-> "register", t |-> t, year |-> y, ret |-> r.ret]
    /\ probe' = [probe EXCEPT !.n = @ + 1]

OrderNext == RegisterOrder

SpecOrder == OrderInit /\ [][OrderNext]_vars

\* ------------------------------------------------------------ alias probe
\* register with aliased names and bureaus, reconcile and
\* finalize_canonical_names in any order.

MaxAlias == 3

AliasInit == RegistryInit /\ probe = [fn |-> "alias", n |-> 0]

RegisterAlias ==
  \E t \in AliasTuples : \E y \in Years :
    /\ probe.n < MaxAlias
    /\ \E r \in {register(Reg, t[1], t[2], t[3], t[4], y)} :
         /\ SetReg(r.reg)
         /\ calls' = Append(calls, [t |-> t, year |-> y, ret |-> r.ret])
         /\ last' = [op |-> "register", t |-> t, year |-> y, ret |-> r.ret]
    /\ probe' = [probe EXCEPT !.n = @ + 1]

AliasNext == RegisterAlias \/ ReconcileMerge \/ Finalize

SpecAlias == AliasInit /\ [][AliasNext]_vars

\* ------------------------------------------------------------ build

\* Code point order of the characters of a by_year file name.
NAMECH == ".0123456789_abcdefghijklmnopqrstuvwxyz"

NameCode(c) == CHOOSE i \in 1..Len(NAMECH) : Ch(NAMECH, i) = c

\* a < b on the names of two files of one directory.
RECURSIVE NameLess(_, _)
NameLess(a, b) ==
  IF b = "" THEN FALSE
  ELSE IF a = "" THEN TRUE
  ELSE IF Ch(a, 1) # Ch(b, 1) THEN NameCode(Ch(a, 1)) < NameCode(Ch(b, 1))
  ELSE NameLess(From(a, 2), From(b, 2))

\* out_path = OUTPUT_DIR / f"fy{year}_table{table}.json"
FileName(key) == "fy" \o Decimal(key[1]) \o "_table" \o Decimal(key[2]) \o ".json"

\* The elements of the set S in the order given by less.
SortedBy(S, less(_, _)) ==
  [i \in 1..Cardinality(S) |->
     CHOOSE x \in S : Cardinality({y \in S : less(y, x)}) = i - 1]

\* Mutant of _load_by_year: the files are read in the order glob lists them.
_load_unsorted(glob) == glob

\* for f in sorted(BY_YEAR_DIR.glob("fy*_table*.json")): the keys of all_data
\* in the order of insertion, whatever order glob lists the files in.
_load_by_year(glob) ==
  SortedBy(Range(glob), LAMBDA a, b : NameLess(FileName(a), FileName(b)))

\* Mutant of SortedItems: the sources are taken latest first.
SortedItemsDescending(all_data) ==
  SortedBy(Range(all_data),
           LAMBDA a, b : a[1] > b[1] \/ (a[1] = b[1] /\ a[2] > b[2]))

\* sorted(all_data.items()): by (year, table); the keys are distinct.
SortedItems(all_data) ==
  SortedBy(Range(all_data),
           LAMBDA a, b : a[1] < b[1] \/ (a[1] = b[1] /\ a[2] < b[2]))

_program_key_from_record(rec) ==
  <<OrEmpty(rec.agency), OrEmpty(rec.bureau), OrEmpty(rec.account),
    OrEmpty(rec.program)>>

\* A float cell in tenths of a percentage point, the unit of RATE_TOLERANCE.
RateTenths(val) ==
  IF Ch(val, 2) = "-" THEN 0 - (DigitsValue(From(val, 3)) \div 100)
  ELSE DigitsValue(From(val, 2)) \div 100

\* for cohort in rec["cohorts"][i:]: pid_rates is the dict of pid.
RECURSIVE CohortRates(_, _, _)
CohortRates(pid_rates, cohorts, i) ==
  IF i > Len(cohorts) THEN pid_rates
  ELSE CHOOSE out \in
    {CohortRates(nxt, cohorts, i + 1) :
       nxt \in {IF \/ cohorts[i].cohort_year = NoneYear
                   \/ cohorts[i].original_subsidy_rate_percent = None
                   \/ ~IsNumber(cohorts[i].original_subsidy_rate_percent)
                   \/ cohorts[i].cohort_year \in DOMAIN pid_rates
                THEN pid_rates
                ELSE Put(pid_rates, cohorts[i].cohort_year,
                         <<RateTenths(cohorts[i].original_subsidy_rate_percent)>>)}} :
      TRUE

\* for rec in data["programs"][i:]
RECURSIVE RecordRates(_, _, _, _)
RecordRates(rates, reg, recs, i) ==
  IF i > Len(recs) THEN rates
  ELSE CHOOSE out \in
    {RecordRates(nxt, reg, recs, i + 1) :
       nxt \in {LET k == _program_key_from_record(recs[i])
                    pid == get_id(reg, k[1], k[2], k[3], k[4])
                IN  IF pid = None THEN rates
                    ELSE Put(rates, pid,
                             CohortRates(IF pid \in DOMAIN rates THEN rates[pid]
                                         ELSE <<>>,
                                         recs[i].cohorts, 1))}} : TRUE

\* for (year, table), data in all_data.items()[i:]: all_data in the order of
\* insertion; files maps a key to the programs of its file.
RECURSIVE SourceRates(_, _, _, _, _)
SourceRates(rates, reg, files, all_data, i) ==
  IF i > Len(all_data) THEN rates
  ELSE CHOOSE out \in
    {SourceRates(nxt, reg, files, all_data, i + 1) :
       nxt \in {IF all_data[i][2] \notin {7, 8} THEN rates
                ELSE RecordRates(rates, reg, files[all_data[i]], 1)}} : TRUE

_extract_subsidy_rates(files, all_data, registry) ==
  SourceRates(<<>>, registry, files, all_data, 1)

\* The (year, table, record) triples of the sources items[i..], in order.
RECURSIVE SourceRecords(_, _, _)
SourceRecords(files, items, i) ==
  IF i > Len(items) THEN <<>>
  ELSE [j \in 1..Len(files[items[i]]) |->
          <<items[i][1], items[i][2], files[items[i]][j]>>]
       \o SourceRecords(files, items, i + 1)

\* Pass 1: registry.register(a, b, c, p, year) for the triples recs[i..].
RECURSIVE RegisterPass(_, _, _)
RegisterPass(reg, recs, i) ==
  IF i > Len(recs) THEN reg
  ELSE CHOOSE out \in
    {RegisterPass(nxt, recs, i + 1) :
       nxt \in {LET k == _program_key_from_record(recs[i][3])
                IN  register(reg, k[1], k[2], k[3], k[4], recs[i][1]).reg}} : TRUE

TABLE_GROUPS ==
  <<[name |-> "table1_historical.json", tables |-> <<1>>,
     credit_type |-> "direct_loan"],
    [name |-> "table2_historical.json", tables |-> <<2>>,
     credit_type |-> "loan_guarantee"],
    [name |-> "table3_4_characteristics.json", tables |-> <<3, 4>>,
     credit_type |-> None],
    [name |-> "table5_6_characteristics.json", tables |-> <<5, 6>>,
     credit_type |-> None],
    [name |-> "table7_8_reestimates.json", tables |-> <<7, 8>>,
     credit_type |-> None],
    [name |-> "table9_10_disbursements.json", tables |-> <<9, 10>>,
     credit_type |-> None]>>

_infer_credit_type(table) ==
  IF table \in {1, 3, 5, 7, 9} THEN "direct_loan" ELSE "loan_guarantee"

\* meta["sector"] = classify_program(...) for every program of all_programs.
Sectors(reg) ==
  [pid \in DOMAIN reg.programs |->
     classify_program(reg.programs[pid].agency, reg.programs[pid].bureau,
                      reg.programs[pid].account,
                      reg.programs[pid].canonical_name)]

\* programs_master.json; sorted(set(...)) is given as the set it lists.
Master(reg, sector) ==
  [pid \in DOMAIN reg.programs |->
     [program_id |-> pid,
      canonical_name |-> reg.programs[pid].canonical_name,
      agency |-> reg.programs[pid].agency,
      bureau |-> reg.programs[pid].bureau,
      account |-> reg.programs[pid].account,
      sector |-> sector[pid],
      name_variants |-> Range(reg.programs[pid].name_variants),
      budget_years_seen |-> Range(reg.programs[pid].budget_years_seen)]]

\* rec without the hierarchy fields, tagged with the table in a merged group.
RecData(rec, table, group) ==
  LET data == [f \in DOMAIN rec \ {"agency", "bureau", "account", "program"} |->
                 rec[f]]
  IN  IF Len(group.tables) > 1
      THEN [f \in DOMAIN data \cup {"_table"} |->
              IF f = "_table" THEN Decimal(table) ELSE data[f]]
      ELSE data

\* programs_out[pid] of a program that is not in programs_out yet.
OutEntry(reg, sector, group, pid, table) ==
  [program_id |-> pid,
   canonical_name |-> reg.programs[pid].canonical_name,
   agency |-> reg.programs[pid].agency,
   bureau |-> reg.programs[pid].bureau,
   sector |-> sector[pid],
   credit_type |-> IF group.credit_type # None THEN group.credit_type
                   ELSE _infer_credit_type(table),
   budget_years |-> <<>>]

\* if pid not in programs_out: programs_out[pid] = entry
\* programs_out[pid]["budget_years"][year_key] = rec_data
\* programs_out is the sequence of its entries in the order of insertion.
OutPut(out, pid, entry, year_key, rec_data) ==
  IF \E n \in 1..Len(out) : out[n].program_id = pid
  THEN [n \in 1..Len(out) |->
          IF out[n].program_id = pid
          THEN [out[n] EXCEPT !.budget_years = Put(@, year_key, rec_data)]
          ELSE out[n]]
  ELSE Append(out, [entry EXCEPT !.budget_years = Put(@, year_key, rec_data)])

\* The loop that fills programs_out for one group, over the triples recs[i..].
RECURSIVE ProgramsOut(_, _, _, _, _, _)
ProgramsOut(out, reg, sector, group, recs, i) ==
  IF i > Len(recs) THEN out
  ELSE CHOOSE res \in
    {ProgramsOut(nxt, reg, sector, group, recs, i + 1) :
       nxt \in UNION
         {{IF recs[i][2] \notin Range(group.tables) \/ pid = None THEN out
           ELSE OutPut(out, pid, OutEntry(reg, sector, group, pid, recs[i][2]),
                       Decimal(recs[i][1]),
                       RecData(recs[i][3], recs[i][2], group))} :
          pid \in {get_id(reg, OrEmpty(recs[i][3].agency),
                          OrEmpty(recs[i][3].bureau),
                          OrEmpty(recs[i][3].account),
                          OrEmpty(recs[i][3].program))}}} : TRUE

\* The unified output files, in the order of TABLE_GROUPS.
Unified(reg, sector, recs, all_data) ==
  [g \in 1..Len(TABLE_GROUPS) |->
     [name |-> TABLE_GROUPS[g].name,
      budget_years |-> {k[1] : k \in {k \in Range(all_data) :
                                        k[2] \in Range(TABLE_GROUPS[g].tables)}},
      tables_included |-> TABLE_GROUPS[g].tables,
      programs |-> ProgramsOut(<<>>, reg, sector, TABLE_GROUPS[g], recs, 1)]]

\* The by_year files: programs of parse_table2 and of parse_table8 output,
\* as json.load returns them.
Rec2(bureau, program) ==
  [agency |-> "EXIM", bureau |-> bureau, account |-> None, program |-> program,
   bea_category |-> IF bureau = "A" THEN Float(1000) ELSE Float(2000)]

Rec8(bureau, program, rate) ==
  [agency |-> "EXIM", bureau |-> bureau, account |-> None, program |-> program,
   cohorts |-> <<[cohort_year |-> 2020, original_subsidy_rate_percent |-> rate]>>]

BuildYears == {2025, 2026}

\* What a file of table 2 or of table 8 holds; <<>> is a file without programs.
FilePrograms(table) ==
  IF table = 2
  THEN {<<Rec2("A", "Export Loans")>>,
        <<Rec2("B", "Export Loan"), Rec2("A", "Export Loans")>>}
  ELSE {<<>>,
        <<Rec8("A", "Export Loans", Float(1000))>>,
        <<Rec8("A", "Export Loans", Float(2000))>>,
        <<Rec8("A", "Export Loans", "n/a")>>,
        <<Rec8("A", "Export Loans", Float(1000)),
          Rec8("B", "Export Loan", Float(1000))>>}

\* The by_year directories: any set of files, each with its programs.
ByYearDirs ==
  UNION {{f \in [keys -> UNION {FilePrograms(2), FilePrograms(8)}] :
            \A k \in keys : f[k] \in FilePrograms(k[2])} :
         keys \in SUBSET (BuildYears \X {2, 8})}

\* The orders in which glob can list the files of a directory.
GlobOrders(keys) ==
  {g \in [1..Cardinality(keys) -> keys] : \A i, j \in 1..Cardinality(keys) :
                                           g[i] = g[j] => i = j}

BuildInit ==
  /\ RegistryInit
  /\ \E files \in ByYearDirs : \E glob \in GlobOrders(DOMAIN files) :
       probe = [fn |-> "build", files |-> files, glob |-> glob, pc |-> "load",
                all_data |-> <<>>, subsidy_rates |-> <<>>, stats |-> <<>>,
                sector |-> <<>>, master |-> <<>>, unified |-> <<>>]

\* The (year, table, record) triples in the order of Pass 1.
BuildRecords == SourceRecords(probe.files, SortedItems(probe.all_data), 1)

BuildLog(op, recs) ==
  [i \in 1..Len(recs) |->
     [op |-> op, year |-> recs[i][1], table |-> recs[i][2],
      t |-> _program_key_from_record(recs[i][3])]]

\* all_data = _load_by_year(); if not all_data: return
BuildLoad ==
  /\ probe.pc = "load"
  /\ \E all_data \in {_load_by_year(probe.glob)} :
       probe' = [probe EXCEPT !.all_data = all_data,
                   !.pc = IF Len(all_data) = 0 THEN "returned" ELSE "register"]
  /\ UNCHANGED <<next_id, key_to_id, programs, calls, last>>

\* Pass 1: register all programs across all tables and years.
BuildRegister ==
  /\ probe.pc = "register"
  /\ \E recs \in {BuildRecords} :
       /\ SetReg(RegisterPass(Reg, recs, 1))
       /\ calls' = calls \o BuildLog("register", recs)
  /\ probe' = [probe EXCEPT !.pc = "rates"]
  /\ UNCHANGED last

\* subsidy_rates = _extract_subsidy_rates(all_data, registry)
BuildRates ==
  /\ probe.pc = "rates"
  /\ \E rates \in {_extract_subsidy_rates(probe.files, probe.all_data, Reg)} :
       probe' = [probe EXCEPT !.subsidy_rates = rates, !.pc = "reconcile"]
  /\ calls' = calls \o BuildLog("get_id",
                SelectSeq(SourceRecords(probe.files, probe.all_data, 1),
                          LAMBDA r : r[2] \in {7, 8}))
  /\ UNCHANGED <<next_id, key_to_id, programs, last>>

\* Pass 2: stats = registry.reconcile(subsidy_rates, rate_tolerance=0.5)
BuildReconcile ==
  /\ probe.pc = "reconcile"
  /\ \E r \in {reconcile(Reg, <<probe.subsidy_rates>>, RATE_TOLERANCE)} :
       /\ SetReg(r.reg)
       /\ probe' = [probe EXCEPT !.stats = <<r.ret>>, !.pc = "finalize"]
       /\ calls' = Append(calls, [op |-> "reconcile", live |-> DOMAIN programs,
                                  subsidy_rates |-> probe.subsidy_rates])
  /\ UNCHANGED last

\* registry.finalize_canonical_names()
BuildFinalize ==
  /\ probe.pc = "finalize"
  /\ SetReg(finalize_canonical_names(Reg))
  /\ probe' = [probe EXCEPT !.pc = "classify"]
  /\ calls' = Append(calls, [op |-> "finalize"])
  /\ UNCHANGED last

\* The sectors, and programs_master.json.
BuildClassify ==
  /\ probe.pc = "classify"
  /\ \E sector \in {Sectors(Reg)} :
       probe' = [probe EXCEPT !.sector = sector, !.master = Master(Reg, sector),
                              !.pc = "unified"]
  /\ calls' = Append(calls, [op |-> "classify"])
  /\ UNCHANGED <<next_id, key_to_id, programs, last>>

\* The unified output files.
BuildUnified ==
  /\ probe.pc = "unified"
  /\ \E recs \in {BuildRecords} :
       /\ probe' = [probe EXCEPT !.unified =
                      Unified(Reg, probe.sector, recs, probe.all_data),
                                 !.pc = "done"]
       /\ calls' = calls \o BuildLog("get_id_out", recs)
  /\ UNCHANGED <<next_id, key_to_id, programs, last>>

BuildNext ==
  \/ BuildLoad \/ BuildRegister \/ BuildRates \/ BuildReconcile
  \/ BuildFinalize \/ BuildClassify \/ BuildUnified

SpecBuild == BuildInit /\ [][BuildNext]_vars

\* ------------------------------------------------------------ properties

NoDup(seq) == \A i, j \in 1..Len(seq) : seq[i] = seq[j] => i = j

Live == DOMAIN programs

\* The program ID a registered tuple stands for now.
IdOf(t) == get_id(Reg, t[1], t[2], t[3], t[4])

\* C1: in every reachable registry state, also after reconcile, a second
\* register call with the same (agency, bureau, account, program, year)
\* returns the program_id of the first, leaves the number of entries of
\* all_programs() unchanged, and adds no duplicate to the name_variants,
\* key_variants or budget_years_seen of any program.
C1_RegisterIdempotent ==
  \A t \in Tuples : \A y \in Years :
    \A r1 \in {register(Reg, t[1], t[2], t[3], t[4], y)} :
      \A r2 \in {register(r1.reg, t[1], t[2], t[3], t[4], y)} :
        /\ r2.ret = r1.ret
        /\ Cardinality(DOMAIN all_programs(r2.reg))
             = Cardinality(DOMAIN all_programs(r1.reg))
        /\ \A p \in DOMAIN r2.reg.programs :
             /\ r2.reg.programs[p].name_variants = r1.reg.programs[p].name_variants
             /\ r2.reg.programs[p].key_variants = r1.reg.programs[p].key_variants
             /\ r2.reg.programs[p].budget_years_seen
                  = r1.reg.programs[p].budget_years_seen
             /\ NoDup(r2.reg.programs[p].name_variants)
             /\ NoDup(r2.reg.programs[p].key_variants)
             /\ NoDup(r2.reg.programs[p].budget_years_seen)

\* C1 witness: the last two register calls had the same arguments and one
\* result, with a program text and a year to record.
C1_Witness ==
  /\ last.op = "register"
  /\ Len(calls) >= 2
  /\ calls[Len(calls)].t = calls[Len(calls) - 1].t
  /\ calls[Len(calls)].year = calls[Len(calls) - 1].year
  /\ calls[Len(calls)].ret = calls[Len(calls) - 1].ret
  /\ IsYear(last.year)
  /\ Len(programs[last.ret].key_variants) >= 2

\* t and u are a tuple holding the alias A and the otherwise identical tuple
\* holding its replacement B, as the program or as the bureau.
AliasPair(t, u) ==
  \E i \in 1..Len(PROGRAM_ALIASES) :
    \/ /\ t[4] = PROGRAM_ALIASES[i][1] /\ u[4] = PROGRAM_ALIASES[i][2]
       /\ t[1] = u[1] /\ t[2] = u[2] /\ t[3] = u[3]
    \/ /\ t[2] = PROGRAM_ALIASES[i][1] /\ u[2] = PROGRAM_ALIASES[i][2]
       /\ t[1] = u[1] /\ t[3] = u[3] /\ t[4] = u[4]

\* C2: for every pair (A, B) of PROGRAM_ALIASES, a register call of a tuple
\* holding B that comes after a register call of the otherwise identical
\* tuple holding A returns the program_id that A's tuple has.
C2_AliasEquivalence ==
  last.op = "register" =>
    \A i \in 1..(Len(calls) - 1) :
      AliasPair(calls[i].t, last.t) =>
        (last.ret = calls[i].ret \/ last.ret = IdOf(calls[i].t))

\* C3: after any register calls, reconciles and further register calls,
\* get_id of every tuple ever registered is a non-null ID that is a key of
\* all_programs(), and no entry of the key -> id map points to an identity
\* that a merge deleted.
C3_KeysResolveToLive ==
  /\ \A i \in 1..Len(calls) :
       IdOf(calls[i].t) # None /\ IdOf(calls[i].t) \in DOMAIN all_programs(Reg)
  /\ \A k \in DOMAIN key_to_id : key_to_id[k] \in Live

\* C3 witness: a register call after a reconcile that merged away the
\* identity an earlier call had returned.
C3_Witness ==
  /\ last.op = "register"
  /\ \E i \in 1..Len(calls) :
       /\ calls[i].ret \notin Live
       /\ IdOf(calls[i].t) \in Live
       /\ IdOf(calls[i].t) # calls[i].ret

\* The rates of a and b contradict each other: a common cohort year with
\* two rates that differ by more than the tolerance.
Contradict(subsidy_rates, a, b, tolerance) ==
  /\ subsidy_rates # <<>>
  /\ a \in DOMAIN subsidy_rates[1]
  /\ b \in DOMAIN subsidy_rates[1]
  /\ \E yr \in DOMAIN subsidy_rates[1][a] \cap DOMAIN subsidy_rates[1][b] :
       /\ subsidy_rates[1][a][yr] # <<>>
       /\ subsidy_rates[1][b][yr] # <<>>
       /\ Abs(subsidy_rates[1][a][yr][1] - subsidy_rates[1][b][yr][1]) > tolerance

SameFuzzyKey(a, b) == FuzzyKey(programs[a]) = FuzzyKey(programs[b])

\* The registered tuples that stand for program a now.
TuplesOf(a) == {calls[i].t : i \in {j \in 1..Len(calls) : IdOf(calls[j].t) = a}}

\* C4: for any two identities that share a fuzzy key and whose supplied rates
\* contradict each other, reconcile() reports at least one blocked merge and
\* get_id of their tuples returns two distinct IDs afterwards, whatever the
\* size of the fuzzy group.
C4_ContradictionBlocks ==
  \A sr \in RateChoices(Reg) :
    \A r \in {reconcile(Reg, sr, RATE_TOLERANCE)} :
      \A a \in Live : \A b \in Live \ {a} :
        (SameFuzzyKey(a, b) /\ Contradict(sr, a, b, RATE_TOLERANCE)) =>
          /\ r.ret.blocked_by_rates >= 1
          /\ \A t \in TuplesOf(a) : \A u \in TuplesOf(b) :
               get_id(r.reg, t[1], t[2], t[3], t[4])
                 # get_id(r.reg, u[1], u[2], u[3], u[4])

\* C5: for any two identities that share a fuzzy key and whose supplied rates
\* do not contradict each other, get_id of every tuple registered under
\* either returns one surviving ID after reconcile(), whatever the size of
\* the fuzzy group.
C5_ConsistentMerge ==
  \A sr \in RateChoices(Reg) :
    \A r \in {reconcile(Reg, sr, RATE_TOLERANCE)} :
      \A a \in Live : \A b \in Live \ {a} :
        (SameFuzzyKey(a, b) /\ ~Contradict(sr, a, b, RATE_TOLERANCE)) =>
          \A t \in TuplesOf(a) : \A u \in TuplesOf(b) :
            /\ get_id(r.reg, t[1], t[2], t[3], t[4])
                 = get_id(r.reg, u[1], u[2], u[3], u[4])
            /\ get_id(r.reg, t[1], t[2], t[3], t[4]) \in DOMAIN r.reg.programs

\* The IDs the first i register calls returned.
Returned(i) == {calls[j].ret : j \in 1..i}

\* C6: the k-th distinct identity gets the ID numbered k, so IDs are minted
\* in increasing order and an ID removed by a merge is not minted again; the
\* next number is one past the IDs minted; a live identity keeps its ID, and
\* so does every tuple whose identity is live.
C6_IdsMonotonic ==
  /\ \A i \in 1..Len(calls) :
       calls[i].ret \notin Returned(i - 1) =>
         /\ PidNumber(calls[i].ret) = Cardinality(Returned(i - 1)) + 1
         /\ calls[i].ret = FormatPid(Cardinality(Returned(i - 1)) + 1)
  /\ next_id = Cardinality(Returned(Len(calls))) + 1
  /\ Live \subseteq Returned(Len(calls))
  /\ \A p \in Live : programs[p].program_id = p
  /\ \A i \in 1..Len(calls) : calls[i].ret \in Live => IdOf(calls[i].t) = calls[i].ret

\* C6 witness: a register call minted an ID after a merge had removed one.
C6_Witness ==
  /\ last.op = "register"
  /\ last.ret \notin Returned(Len(calls) - 1)
  /\ \E i \in 1..(Len(calls) - 1) : calls[i].ret \notin Live

\* C7: normalize_program_key returns one key for two tuples that differ only
\* in the dash glyph or the length of a dash run, in letter case, in white
\* space runs or leading and trailing white space, or in a trailing footnote
\* number on the program, also when the program name itself ends in a number;
\* and register returns one program_id for the two.
C7_KeyInvariance ==
  probe.fn = "key" =>
    /\ probe.keys # <<>> => probe.keys[1] = probe.keys[2]
    /\ Len(probe.ids) = 2 => probe.ids[1] = probe.ids[2]

\* C7, without the footnote case: the key and the program_id do not depend
\* on dash glyphs, letter case or white space runs.
C7_DashCaseSpace ==
  (probe.fn = "key" /\ probe.kind # "footnote") =>
    /\ probe.keys # <<>> => probe.keys[1] = probe.keys[2]
    /\ Len(probe.ids) = 2 => probe.ids[1] = probe.ids[2]

\* C7, footnote case for a name that does not end in a number.
C7_FootnoteAfterWord ==
  (probe.fn = "key" /\ probe.kind = "footnote"
     /\ Ch(probe.base[4], Len(probe.base[4])) \notin DIGITS) =>
    /\ probe.keys # <<>> => probe.keys[1] = probe.keys[2]
    /\ Len(probe.ids) = 2 => probe.ids[1] = probe.ids[2]

\* What C8 says of one step: when the step is a get_id call, it changes
\* nothing of the registry, its result is null exactly when neither key of
\* the tuple is known, and for a registered tuple the result is a live ID:
\* the one register returned while that identity lives, else the identity
\* that holds the tuple's raw key among its key_variants.
C8_LookupStep ==
  (last'.op = "get_id" /\ last' # last) =>
    /\ UNCHANGED <<next_id, key_to_id, programs>>
    /\ last'.ret = None <=>
         /\ KeyOf(last'.t[1], last'.t[2], last'.t[3], last'.t[4])
              \notin DOMAIN key_to_id
         /\ ResolvedOf(KeyOf(last'.t[1], last'.t[2], last'.t[3], last'.t[4]))
              \notin DOMAIN key_to_id
    /\ \A i \in 1..Len(calls) :
         calls[i].t = last'.t =>
           /\ last'.ret \in Live
           /\ calls[i].ret \in Live => last'.ret = calls[i].ret
           /\ Contains(programs[last'.ret].key_variants,
                       KeyOf(last'.t[1], last'.t[2], last'.t[3], last'.t[4]))

\* C8: get_id changes nothing of the registry (key map, identities, next
\* ID); it returns null exactly when neither the resolved nor the raw key of
\* the tuple is known; and for a tuple passed to register before it returns
\* the ID register returned or, once a reconcile merged that identity away,
\* the ID of the identity that absorbed it.
C8_GetIdPure == [][C8_LookupStep]_vars

\* C8 witness: a lookup of a registered tuple whose identity was merged away.
C8_Witness ==
  /\ last.op = "get_id"
  /\ last.ret # None
  /\ \E i \in 1..Len(calls) : calls[i].t = last.t /\ calls[i].ret \notin Live

\* The override patterns found in the normalized program or account name
\* of the classified tuple.
C9_Hits ==
  UNION { {i \in 1..Len(_PROGRAM_OVERRIDES) : InStr(_PROGRAM_OVERRIDES[i][1], n)} :
            n \in {sector_norm(OrEmpty(probe.args[c])) : c \in {3, 4}} }

\* C9: when an override pattern is contained in the normalized program name
\* or in the normalized account name, classify_program returns the sector of
\* the first such pattern of _PROGRAM_OVERRIDES, whatever the bureau and the
\* agency; 'SBA Disaster Loans' under bureau 'Small Business Administration'
\* is disaster_assistance; and an earlier pattern found in the account only
\* wins over a later pattern found in the program name.
C9_OverridePriority ==
  (probe.fn = "classify" /\ probe.out # <<>>) =>
    /\ \A i \in C9_Hits :
         (\A j \in C9_Hits : i <= j) => probe.out[1] = _PROGRAM_OVERRIDES[i][2]
    /\ (probe.args[4] = "SBA Disaster Loans"
          /\ probe.args[2] = "Small Business Administration")
         => probe.out[1] = "disaster_assistance"
    /\ (probe.args[3] = "Disaster Loans Program Account"
          /\ probe.args[4] = "Railroad Rehabilitation")
         => probe.out[1] = "disaster_assistance"

\* C9 witness: 'SBA Disaster Loans' of the bureau and agency 'Small Business
\* Administration' was classified as disaster_assistance.
C9_Witness ==
  /\ probe.fn = "classify"
  /\ probe.args[1] = "Small Business Administration"
  /\ probe.args[2] = "Small Business Administration"
  /\ probe.args[4] = "SBA Disaster Loans"
  /\ probe.out = <<"disaster_assistance">>

\* The normalized patterns of the bureau rules and of the agency rules.
C10_BureauPatterns ==
  {sector_norm(_BUREAU_RULES[i][1]) : i \in 1..Len(_BUREAU_RULES)}

C10_AgencyPatterns ==
  {sector_norm(_AGENCY_RULES[i][1]) : i \in 1..Len(_AGENCY_RULES)}

\* No override pattern, bureau rule or agency rule matches the classified
\* tuple.
C10_NoRule ==
  /\ C9_Hits = {}
  /\ \A n \in {sector_norm(OrEmpty(probe.args[2]))} :
       \A pattern \in C10_BureauPatterns : ~InStr(pattern, n)
  /\ \A n \in {sector_norm(OrEmpty(probe.args[1]))} :
       \A pattern \in C10_AgencyPatterns : ~InStr(pattern, n)

\* C10: for every input, null and empty components included,
\* classify_program returns one of the twelve keys of SECTORS, and it returns
\* other_government when no override, bureau rule or agency rule matches.
C10_Total ==
  (probe.fn = "classify" /\ probe.out # <<>>) =>
    /\ probe.out[1] \in SECTORS
    /\ Cardinality(SECTORS) = 12
    /\ C10_NoRule => probe.out[1] = "other_government"

\* C10 witness: the tuple of four nulls was classified as other_government.
C10_Witness ==
  /\ probe.fn = "classify"
  /\ probe.args = <<None, None, None, None>>
  /\ probe.out = <<"other_government">>

\* The sheet of the scenario: three rows of four cells.
ScenarioSheet ==
  <<<<"Department of Housing", "", "", "">>,
    <<"Mortgage Insurance:", "", "", "">>,
    <<"Guaranteed Loans.......", "1.2", "5000", "50">>>>

\* C11: extraction never raises and never stops early, whatever the rows:
\* a run always ends without an exception, also on a program-looking row
\* with fewer cells than the highest field offset; and an empty input
\* yields zero records.
C11_NeverRaises ==
  probe.runs > 0 =>
    /\ ~probe.out.raised
    /\ (probe.df = <<>> => probe.out.programs = <<>>)

\* C12: on the three-row scenario sheet with a bureau lookup containing
\* 'Mortgage Insurance', extraction emits exactly one record: agency
\* 'Department of Housing', bureau 'Mortgage Insurance', program
\* 'Guaranteed Loans', and the cells parsed as the floats 1.2, 5000, 50.
C12_Scenario ==
  (/\ probe.runs > 0
   /\ probe.df = ScenarioSheet
   /\ "Mortgage Insurance" \in probe.known_bureaus
   /\ probe.table \in {2, 6})
  => /\ ~probe.out.raised
     /\ Len(probe.out.programs) = 1
     /\ probe.out.programs[1].agency = "Department of Housing"
     /\ probe.out.programs[1].bureau = "Mortgage Insurance"
     /\ probe.out.programs[1].program = "Guaranteed Loans"
     /\ <<Float(1200), Float(5000000), Float(50000)>> =
          IF probe.table = 2
          THEN <<probe.out.programs[1].bea_category,
                 probe.out.programs[1].cohorts[1].subsidy_rate_percent,
                 probe.out.programs[1].cohorts[1].obligations_thousands>>
          ELSE <<probe.out.programs[1].subsidy_rate_percent,
                 probe.out.programs[1].subsidy_composition.defaults_net_of_recoveries,
                 probe.out.programs[1].subsidy_composition.interest>>

\* The placeholder tokens of parse_value in parse_table<table>.
C13_Placeholders(table) ==
  IF table = 8 THEN {"......", "", "-", "*"} ELSE {"......", "", "-"}

\* What the contract asks for: null, a float, or the trimmed text.
C13_Expected(table, val) ==
  IF val = NaN THEN None
  ELSE IF IsNumber(val) THEN val
  ELSE IF strip(val) \in C13_Placeholders(table) THEN None
  ELSE LET bare == ReplaceCh(ReplaceCh(strip(val), ",", ""), " ", "")
       IN  IF IsFloatText(bare) THEN Float(FloatValue(bare)) ELSE strip(val)

\* C13: parse_value gives null for a null, blank, whitespace-only or
\* placeholder cell, a float for every text that denotes a number once
\* thousands separators and interior spaces are removed ('5,000' gives
\* 5000.0), and the trimmed text for everything else.
C13_CellContract ==
  probe.out # <<>> => probe.out = <<C13_Expected(probe.table, probe.val)>>

\* C13, the parts that hold: null for null, blank and placeholder cells, a
\* float for plain decimal texts, and otherwise a text (never an exception).
C13_NullAndPlain ==
  probe.out # <<>> =>
    /\ (probe.val = NaN \/ strip(probe.val) \in C13_Placeholders(probe.table))
         => probe.out = <<None>>
    /\ (probe.val # NaN /\ IsFloatText(probe.val))
         => probe.out = <<Float(FloatValue(probe.val))>>
    /\ probe.out[1] \in {None, strip(probe.val)} \/ IsNumber(probe.out[1])

\* The entries recorded for the pair key, over the three lists.
C14_Entries(key) ==
  Cardinality({i \in 1..Len(probe.success) :
                 <<probe.success[i].year, probe.success[i].table>> = key})
  + Cardinality({i \in 1..Len(probe.failed) :
                 <<probe.failed[i].year, probe.failed[i].table>> = key})
  + Cardinality({i \in 1..Len(probe.skipped) :
                 <<probe.skipped[i].year, probe.skipped[i].table>> = key})

\* Every pair visited so far has one entry per visit, in one list.
C14_Accounted ==
  /\ Len(probe.success) + Len(probe.failed) + Len(probe.skipped) = probe.pos
  /\ \A k \in 1..probe.pos :
       C14_Entries(PairsOf(probe)[k]) =
         Cardinality({j \in 1..probe.pos : PairsOf(probe)[j] = PairsOf(probe)[k]})

\* The manifest is written after every pair was visited.
C14_Complete ==
  /\ probe.manifest # <<>>
  /\ probe.pos = Len(PairsOf(probe))

\* C14: run_pipeline records for every (year, table) pair of the year range
\* and the table list exactly one entry, in exactly one of success, failed
\* and skipped; an exception for one pair does not keep the later pairs
\* from being processed; and the manifest-writing step is always reached.
C14_Pipeline == [](C14_Accounted) /\ <>(C14_Complete)

\* A pair failed, a later pair succeeded, and the manifest was written.
C14_Witness ==
  /\ probe.fn = "run_pipeline"
  /\ probe.manifest # <<>>
  /\ probe.tables = <<2, 6>>
  /\ probe.failed = <<[year |-> 2026, table |-> 2]>>
  /\ probe.success = <<[year |-> 2026, table |-> 6]>>

\* The tuple with every null field given as the empty text.
C15_Blanked(t) == [i \in 1..4 |-> IF t[i] = None THEN "" ELSE t[i]]

\* C15: register takes missing hierarchy fields as empty texts: in every
\* registry a call with null agency, bureau or account succeeds, creates or
\* reuses an identity, and returns the program_id (and leaves the registry)
\* of the call with those fields given as empty texts.
C15_MissingAsEmpty ==
  \A t \in MissingTuples : \A y \in Years :
    \A a \in {register(Reg, t[1], t[2], t[3], t[4], y)} :
      \A b \in {register(Reg, C15_Blanked(t)[1], C15_Blanked(t)[2],
                         C15_Blanked(t)[3], C15_Blanked(t)[4], y)} :
        /\ a.ret \in DOMAIN a.reg.programs
        /\ a.ret \in DOMAIN programs \/ a.ret = FormatPid(next_id)
        /\ a.ret = b.ret
        /\ a.reg = b.reg

\* An identity with no hierarchy context at all was created by a call with
\* null fields, next to an identity that has an agency.
C15_Witness ==
  /\ last.op = "register"
  /\ last.t = <<None, None, None, "Direct Loans">>
  /\ last.ret \in DOMAIN programs
  /\ programs[last.ret].agency = ""
  /\ programs[last.ret].bureau = ""
  /\ programs[last.ret].account = ""
  /\ Cardinality(DOMAIN programs) = 2
  /\ probe.n = 2

\* The rows that produced the records come in increasing order.
C16_Increasing(recs) ==
  \A i \in 1..Len(recs) : \A j \in 1..Len(recs) :
    i < j => recs[i].row < recs[j].row

\* Records in the order of their rows; for parse_table8 the programs in the
\* order of their first cohort row and each program's cohorts in row order.
C16_Ordered ==
  probe.runs > 0 =>
    /\ C16_Increasing(probe.out.programs)
    /\ \A i \in 1..Len(probe.out.programs) :
         /\ probe.out.programs[i].row \in 2..(Len(probe.df) - 1)
         /\ probe.table = 8 =>
              /\ C16_Increasing(probe.out.programs[i].cohorts)
              /\ probe.out.programs[i].cohorts[1].row = probe.out.programs[i].row

C17_NamesBefore(p) ==
  IF p \in DOMAIN programs THEN Range(programs[p].name_variants) ELSE {}

C17_YearsBefore(p) ==
  IF p \in DOMAIN programs THEN Range(programs[p].budget_years_seen) ELSE {}

\* C17: with register calls only, each identity's name_variants is exactly
\* the set of distinct non-empty program strings of the calls that returned
\* its ID, and its budget_years_seen exactly the set of their distinct
\* non-zero years: every call adds its program string and its year to the
\* identity it returns, also when the ID existed, and touches no other.
C17_VariantsAndYears ==
  [][ /\ last'.ret \in DOMAIN programs'
      /\ Range(programs'[last'.ret].name_variants) =
           C17_NamesBefore(last'.ret)
             \cup (IF last'.t[4] \notin {None, ""} THEN {last'.t[4]} ELSE {})
      /\ Range(programs'[last'.ret].budget_years_seen) =
           C17_YearsBefore(last'.ret)
             \cup (IF last'.year \notin {NoneYear, 0} THEN {last'.year} ELSE {})
      /\ NoDup(programs'[last'.ret].name_variants)
      /\ NoDup(programs'[last'.ret].budget_years_seen)
      /\ \A q \in DOMAIN programs \ {last'.ret} :
           q \in DOMAIN programs' /\ programs'[q] = programs[q] ]_vars

\* A call that returned an existing ID added a second name variant and the
\* first budget year to it.
C17_Witness ==
  /\ probe.fn = "missing"
  /\ probe.n = 2
  /\ last.t[4] = "DIRECT LOANS"
  /\ last.year = 2026
  /\ programs[last.ret].name_variants = <<"Direct Loans", "DIRECT LOANS">>
  /\ programs[last.ret].budget_years_seen = <<2026>>

\* len(budget_years_seen) of a live identity, before reconcile runs.
C18_Years(p) == Len(programs[p].budget_years_seen)

\* The target of every fuzzy group of two or more has the most budget years.
C18_TargetMaximal ==
  \A groups \in {fuzzy_groups(Reg)} :
    \A g \in 1..Len(groups) :
      Len(groups[g]) >= 2 =>
        \A sorted \in {pids_sorted(Reg, groups[g])} :
          /\ sorted[1] \in Range(groups[g])
          /\ \A m \in Range(groups[g]) : C18_Years(m) <= C18_Years(sorted[1])

\* C18: in reconcile the merge target of every fuzzy group of two or more
\* is a member with the most distinct budget years, counted when reconcile
\* starts; so every identity that a merge removes had at most as many budget
\* years as the identity of its group that survives it.
C18_TargetHasMostYears ==
  /\ C18_TargetMaximal
  /\ \A sr \in RateChoices(Reg) :
       \A r \in {reconcile(Reg, sr, RATE_TOLERANCE)} :
         \A p \in Live \ DOMAIN r.reg.programs :
           \A q \in {r.reg.key_to_id[programs[p].canonical_key]} :
             /\ q \in Live
             /\ q \in DOMAIN r.reg.programs
             /\ FuzzyKey(programs[q]) = FuzzyKey(programs[p])
             /\ C18_Years(p) <= C18_Years(q)

\* A reconcile removed an identity in favour of one registered after it.
C18_Witness ==
  /\ last.op = "reconcile"
  /\ \E i \in 1..Len(calls) :
       /\ calls[i].ret \notin Live
       /\ IdOf(calls[i].t) \in Live
       /\ PidNumber(IdOf(calls[i].t)) > PidNumber(calls[i].ret)

\* C19: when several members of a fuzzy group have the same, largest
\* number of budget years, reconcile takes as target the one registered
\* first, the one with the numerically smallest ID, also when IDs wider
\* than the three digits of 'P%03d' exist (P999 and P1000).
C19_TieBreakFirstRegistered ==
  \A groups \in {fuzzy_groups(Reg)} :
    \A g \in 1..Len(groups) :
      Len(groups[g]) >= 2 =>
        \A sorted \in {pids_sorted(Reg, groups[g])} :
          \A m \in Range(groups[g]) :
            Len(programs[m].budget_years_seen)
                = Len(programs[sorted[1]].budget_years_seen)
              => PidNumber(sorted[1]) <= PidNumber(m)

\* The rate of program pid for cohort year yr is supplied and not null.
C20_HasRate(pid, yr) ==
  /\ probe.subsidy_rates # <<>>
  /\ pid \in DOMAIN probe.subsidy_rates[1]
  /\ yr \in DOMAIN probe.subsidy_rates[1][pid]
  /\ probe.subsidy_rates[1][pid][yr] # <<>>

\* Some cohort year has a rate for both programs, more than the tolerance apart.
C20_Conflict ==
  \E yr \in ProbeCohorts :
    /\ C20_HasRate(probe.pid_a, yr)
    /\ C20_HasRate(probe.pid_b, yr)
    /\ \/ probe.subsidy_rates[1][probe.pid_a][yr][1]
            - probe.subsidy_rates[1][probe.pid_b][yr][1] > probe.tolerance
       \/ probe.subsidy_rates[1][probe.pid_b][yr][1]
            - probe.subsidy_rates[1][probe.pid_a][yr][1] > probe.tolerance

\* C20: _rates_consistent(a, b) is false exactly when subsidy_rates is given
\* and some cohort year present for both a and b has two non-null rates
\* that differ by strictly more than the tolerance; a difference equal to
\* the tolerance, a null rate, an identity absent from subsidy_rates, and a
\* null subsidy_rates never block a merge.
C20_BlocksOnlyOnConflict ==
  probe.out # <<>> => (probe.out = <<FALSE>> <=> C20_Conflict)

\* The rates of one cohort year are exactly the tolerance apart, the other
\* cohort year has a null rate, and the result is true.
C20_Witness ==
  /\ probe.fn = "_rates_consistent"
  /\ probe.out = <<TRUE>>
  /\ probe.tolerance = RATE_TOLERANCE
  /\ probe.subsidy_rates =
       <<[p \in ProbePids |->
            [yr \in ProbeCohorts |->
               IF yr = 2021 /\ p = FormatPid(1) THEN <<>>
               ELSE IF p = FormatPid(1) THEN <<10>> ELSE <<15>>]]>>

\* The identities that reconcile, ending in registry reg, merged into T,
\* and T itself.
C21_MergedInto(reg, T) ==
  {S \in Live : S \notin DOMAIN reg.programs
                  /\ reg.key_to_id[programs[S].canonical_key] = T} \cup {T}

\* The largest year that the name-year maps of the identities in M have for name.
C21_LatestYear(M, name) ==
  CHOOSE y \in {NymGet(programs[S].name_year_map, name) :
                  S \in {S \in M : NymHas(programs[S].name_year_map, name)}} :
    \A S \in M : NymHas(programs[S].name_year_map, name)
                   => NymGet(programs[S].name_year_map, name) <= y

\* C21: when reconcile merges S into T, afterwards T's name_variants,
\* key_variants and budget_years_seen are the unions, without duplicates,
\* of what T and S had before, T's name -> latest-year map has for each
\* name the larger of the two years, and S is no key of all_programs().
C21_MergeEffect ==
  \A r \in {reconcile(Reg, <<>>, RATE_TOLERANCE)} :
    /\ \A S \in Live \ DOMAIN r.reg.programs :
         /\ S \notin DOMAIN all_programs(r.reg)
         /\ r.reg.key_to_id[programs[S].canonical_key] \in DOMAIN r.reg.programs
    /\ \A T \in DOMAIN r.reg.programs :
         \A M \in {C21_MergedInto(r.reg, T)} :
           \A after \in {r.reg.programs[T]} :
             /\ T \in Live
             /\ Range(after.name_variants) =
                  UNION {Range(programs[S].name_variants) : S \in M}
             /\ Range(after.key_variants) =
                  UNION {Range(programs[S].key_variants) : S \in M}
             /\ Range(after.budget_years_seen) =
                  UNION {Range(programs[S].budget_years_seen) : S \in M}
             /\ NoDup(after.name_variants)
             /\ NoDup(after.key_variants)
             /\ NoDup(after.budget_years_seen)
             /\ {after.name_year_map[i][1] : i \in 1..Len(after.name_year_map)} =
                  UNION {{programs[S].name_year_map[i][1] :
                            i \in 1..Len(programs[S].name_year_map)} : S \in M}
             /\ \A i \in 1..Len(after.name_year_map) :
                  after.name_year_map[i][2] =
                    C21_LatestYear(M, after.name_year_map[i][1])

\* A reconcile merged an identity that had an older year for a name into
\* one that had a newer year for it.
C21_Witness ==
  /\ probe.fn = "merge"
  /\ last.op = "reconcile"
  /\ last.ret.merges = 1
  /\ DOMAIN programs = {FormatPid(1)}
  /\ next_id = 3
  /\ programs[FormatPid(1)].budget_years_seen = <<2025, 2024>>
  /\ programs[FormatPid(1)].name_year_map = <<(<<"Export Loans", 2025>>)>>
  /\ Len(programs[FormatPid(1)].key_variants) = 2

\* The sum over the fuzzy groups, from group g on, of (group size - 1).
RECURSIVE C22_Pairs(_, _)
C22_Pairs(groups, g) ==
  IF g > Len(groups) THEN 0
  ELSE (Len(groups[g]) - 1) + C22_Pairs(groups, g + 1)

\* C22: the summary that reconcile returns agrees with what it did: merges
\* + blocked_by_rates is the sum over the fuzzy groups of (group size - 1),
\* programs_after is the number of live identities before the call minus
\* merges, and programs_after is the size of all_programs() after the call.
C22_SummaryConsistent ==
  \A sr \in RateChoices(Reg) :
    \A r \in {reconcile(Reg, sr, RATE_TOLERANCE)} :
      /\ r.ret.merges + r.ret.blocked_by_rates = C22_Pairs(fuzzy_groups(Reg), 1)
      /\ r.ret.programs_after = Cardinality(Live) - r.ret.merges
      /\ r.ret.programs_after = Cardinality(DOMAIN all_programs(r.reg))
      /\ r.ret.merges = Cardinality(Live \ DOMAIN r.reg.programs)

\* A reconcile merged one pair of a fuzzy group and left another blocked.
C22_Witness ==
  /\ last.op = "reconcile"
  /\ last.ret.merges >= 1
  /\ last.ret.blocked_by_rates >= 1
  /\ last.ret.programs_after = Cardinality(Live)

\* The entries of the call log of build() with the given op.
C23_Ops(op) == SelectSeq(calls, LAMBDA e : e.op = op)

C23_At(op) == {i \in 1..Len(calls) : calls[i].op = op}

\* What build() does in whatever state it is: the register calls made so far
\* are in ascending (year, table) order and follow the records of each source;
\* reconcile is called at most once, after a register call for every record of
\* every source, with rates keyed by IDs that were live before it; finalize,
\* classification and the get_id calls of the output come after reconcile.
C23_Order ==
  probe.fn = "build" =>
    /\ \A i, j \in C23_At("register") :
         i < j => \/ calls[i].year < calls[j].year
                  \/ /\ calls[i].year = calls[j].year
                     /\ calls[i].table <= calls[j].table
    /\ Cardinality(C23_At("reconcile")) <= 1
    /\ \A r \in C23_At("reconcile") :
         /\ \A i \in C23_At("register") : i < r
         /\ \A k \in DOMAIN probe.files :
              SelectSeq(SubSeq(calls, 1, r - 1),
                        LAMBDA e : e.op = "register" /\ e.year = k[1]
                                   /\ e.table = k[2])
                = [i \in 1..Len(probe.files[k]) |->
                     [op |-> "register", year |-> k[1], table |-> k[2],
                      t |-> _program_key_from_record(probe.files[k][i])]]
         /\ DOMAIN calls[r].subsidy_rates \subseteq calls[r].live
         /\ calls[r].live = {FormatPid(n) : n \in 1..(next_id - 1)}
    /\ \A i \in C23_At("finalize") \cup C23_At("classify")
                  \cup C23_At("get_id_out") :
         \E r \in C23_At("reconcile") : r < i

\* C23 as the spec states it: in build(), register is called for every record
\* of every source in ascending (year, table) order, reconcile is called
\* exactly once and only after all of those register calls, the subsidy rates
\* passed to it are keyed by pre-merge IDs, and finalize_canonical_names,
\* sector classification and every get_id of the unified output happen only
\* after reconcile has returned.
C23_ReconcileExactlyOnce ==
  /\ C23_Order
  /\ (probe.fn = "build" /\ probe.pc \in {"done", "returned"})
       => Cardinality(C23_At("reconcile")) = 1

\* C23 amended: the order of C23 holds in every build(); a build() that loaded
\* at least one source file calls reconcile exactly once, and a build() that
\* found no source file returns without calling register or reconcile at all.
C23_ReconcileOnceWhenLoaded ==
  /\ C23_Order
  /\ (probe.fn = "build" /\ probe.pc = "done")
       => Len(probe.all_data) > 0 /\ Cardinality(C23_At("reconcile")) = 1
  /\ (probe.fn = "build" /\ probe.pc = "returned")
       => Len(probe.all_data) = 0 /\ calls = <<>>

\* A build() over several sources that is through, whose reconcile was handed
\* a rate for an ID that it then merged away.
C23_Witness ==
  /\ probe.fn = "build" /\ probe.pc = "done"
  /\ Len(probe.all_data) >= 3
  /\ Len(C23_Ops("register")) >= 3
  /\ \E r \in C23_At("reconcile") :
       \E pid \in DOMAIN calls[r].subsidy_rates : pid \notin DOMAIN programs

\* C24: the registry and the unified output of build() depend only on the
\* contents of the per-(year, table) record lists: in whatever order the
\* sources were written and are listed, the single-threaded registration step
\* yields the same program IDs, the same merges and the same output. Every
\* listing of a directory is the start of some build(): each is compared with
\* the build() over one fixed listing of the same directory.
C24_OrderIndependent ==
  (probe.fn = "build" /\ probe.pc = "done") =>
    \A glob \in {CHOOSE g \in GlobOrders(DOMAIN probe.files) : TRUE} :
    \A all_data \in {_load_by_year(glob)} :
    \A recs \in {SourceRecords(probe.files, SortedItems(all_data), 1)} :
    \A reg1 \in {RegisterPass(EmptyRegistry, recs, 1)} :
    \A rates \in {_extract_subsidy_rates(probe.files, all_data, reg1)} :
    \A rec \in {reconcile(reg1, <<rates>>, RATE_TOLERANCE)} :
    \A reg3 \in {finalize_canonical_names(rec.reg)} :
    \A sector \in {Sectors(reg3)} :
      /\ Reg = reg3
      /\ probe.subsidy_rates = rates
      /\ probe.stats = <<rec.ret>>
      /\ probe.master = Master(reg3, sector)
      /\ probe.unified = Unified(reg3, sector, recs, all_data)

\* A build() that is through, whose sources were listed out of order, that
\* saw two rates for one cohort of one program, and that merged two programs.
C24_Witness ==
  /\ probe.fn = "build" /\ probe.pc = "done"
  /\ probe.glob # probe.all_data
  /\ \E k1, k2 \in DOMAIN probe.files :
       /\ k1 # k2 /\ k1[2] = 8 /\ k2[2] = 8
       /\ probe.files[k1] # <<>> /\ probe.files[k2] # <<>>
       /\ probe.files[k1][1].cohorts # probe.files[k2][1].cohorts
  /\ probe.stats[1].merges >= 1
  /\ Len(probe.unified) > 0

\* The row that a step of the walk has read.
WalkRead == probe'.rows[Len(probe'.rows)]

\* A hierarchy label row: the first cell ends in a colon, no program data.
C25_IsLabel(row) ==
  /\ Col0(row) # "" /\ EndsWithColon(Col0(row))
  /\ ~is_program(Col0(row))
  /\ \A k \in 1..(WalkWidth - 1) : Col(row, k) = ""

C25_Name(row) == strip(SubSeq(Col0(row), 1, Len(Col0(row)) - 1))

\* C25: in every parser a hierarchy label row sets the bureau and clears the
\* account if and only if its text is a member of known_bureaus; otherwise
\* it sets the account and leaves the bureau unchanged.
C25_KnownBureausDecide ==
  [][(probe.fn = "walk" /\ C25_IsLabel(WalkRead)) =>
       IF C25_Name(WalkRead) \in probe.known_bureaus
       THEN /\ probe'.st.bureau = C25_Name(WalkRead)
            /\ probe'.st.account = None
       ELSE /\ probe'.st.account = C25_Name(WalkRead)
            /\ probe'.st.bureau = probe.st.bureau]_vars

\* The kinds of row of tables 2 and 6, told from the row alone.  A row with
\* a sentinel is a program row or nothing; a row holding a header word is a
\* column-header row.
C26_IsColonLabel(row) ==
  Col0(row) # "" /\ ~is_program(Col0(row)) /\ EndsWithColon(Col0(row))

C26_IsAgencyLabel(row) ==
  /\ Col0(row) # "" /\ ~is_program(Col0(row)) /\ ~EndsWithColon(Col0(row))
  /\ \A w \in {"Agency", "BEA", "Subsidy"} : ~InStr(w, Col0(row))

C26_IsBureauLabel(row) ==
  C26_IsColonLabel(row) /\ C25_Name(row) \in probe.known_bureaus

C26_IsAccountLabel(row) ==
  C26_IsColonLabel(row) /\ C25_Name(row) \notin probe.known_bureaus

\* The positions before position n of the rows read that hold such a row.
C26_AgencyAt(n) == {i \in 1..(n - 1) : C26_IsAgencyLabel(probe.rows[i])}

C26_BureauAt(n) == {i \in 1..(n - 1) : C26_IsBureauLabel(probe.rows[i])}

C26_AccountAt(n) == {i \in 1..(n - 1) : C26_IsAccountLabel(probe.rows[i])}

C26_Max(S) == CHOOSE i \in S \cup {0} : \A j \in S : j <= i

\* The context at position n, from the rows before it: the most recent
\* agency label; the most recent bureau label since it; the most recent
\* account label since the last bureau or agency label.
C26_Agency(n) ==
  IF C26_AgencyAt(n) = {} THEN None ELSE Col0(probe.rows[C26_Max(C26_AgencyAt(n))])

C26_Bureau(n) ==
  IF C26_Max(C26_BureauAt(n)) > C26_Max(C26_AgencyAt(n))
  THEN C25_Name(probe.rows[C26_Max(C26_BureauAt(n))]) ELSE None

C26_Account(n) ==
  IF /\ C26_Max(C26_AccountAt(n)) > C26_Max(C26_AgencyAt(n))
     /\ C26_Max(C26_AccountAt(n)) > C26_Max(C26_BureauAt(n))
  THEN C25_Name(probe.rows[C26_Max(C26_AccountAt(n))]) ELSE None

\* C26: in parse_table2 and parse_table6, after every row of any row
\* sequence the context is the one the reset rules give, and every emitted
\* record is tagged with the context active at its row: the most recent
\* agency label before it, the most recent bureau label since that agency
\* label (null if none), the most recent account label since the last bureau
\* or agency label (null if none); an account label never clears the bureau.
C26_ContextRules ==
  (probe.fn = "walk" /\ probe.table \in {2, 6}) =>
    /\ probe.st.agency = C26_Agency(Len(probe.rows) + 1)
    /\ probe.st.bureau = C26_Bureau(Len(probe.rows) + 1)
    /\ probe.st.account = C26_Account(Len(probe.rows) + 1)
    /\ \A k \in 1..Len(probe.st.programs) :
         \E n \in {probe.st.programs[k].row - 1} :
           /\ is_program(Col0(probe.rows[n]))
           /\ probe.st.programs[k].agency = C26_Agency(n)
           /\ probe.st.programs[k].bureau = C26_Bureau(n)
           /\ probe.st.programs[k].account = C26_Account(n)

\* A record under an agency, a bureau and an account, emitted after an
\* account label that followed the bureau label.
C26_Witness ==
  /\ probe.fn = "walk" /\ probe.table \in {2, 6}
  /\ \E k \in 1..Len(probe.st.programs) :
       /\ probe.st.programs[k].agency # None
       /\ probe.st.programs[k].bureau # None
       /\ probe.st.programs[k].account # None

\* A row whose first cell looks like a program sentinel.
C27_IsSentinel(row) == Col0(row) # "" /\ is_program(Col0(row))

C27_NoData(row) == \A k \in 1..(WalkWidth - 1) : Col(row, k) \in {"", NaN}

\* C27: row classification is an ordered fall-through.  A sentinel row is a
\* program row only if a financial field is non-null; a sentinel row with no
\* data is evaluated by the later rules, so that one whose first cell ends in
\* a colon is handled as a hierarchy label and updates bureau or account.
C27_FallThrough ==
  [][(probe.fn = "walk" /\ probe.table \in {2, 6, 9}
        /\ C27_IsSentinel(WalkRead)) =>
       /\ Len(probe'.st.programs) > Len(probe.st.programs)
            => ~C27_NoData(WalkRead)
       /\ (C27_NoData(WalkRead) /\ EndsWithColon(Col0(WalkRead)))
            => \/ probe'.st.bureau = C25_Name(WalkRead)
               \/ probe'.st.account = C25_Name(WalkRead)]_vars

\* The first cells of the column-header rows of the sheets.
C28_Headings == {"Table", "Agency and Program", "BEA Category", "Subsidy rate"}

\* A non-blank row that is neither a program row nor a label with a colon,
\* begins with an uppercase character and is not a column-header row.
C28_IsAgencyName(row) ==
  /\ Col0(row) # "" /\ get_indent(Col(row, 0)) = 0
  /\ ~is_program(Col0(row)) /\ ~EndsWithColon(Col0(row))
  /\ InStr(Ch(Col0(row), 1), UPPER)
  /\ Col0(row) \notin C28_Headings

\* C28: such a row is treated as an agency label: the agency becomes its
\* text and bureau and account are cleared; this applies to every agency
\* name, including names that merely contain a header word.
C28_AgencyLabel ==
  [][(probe.fn = "walk" /\ probe.table \in {2, 6, 9}
        /\ C28_IsAgencyName(WalkRead)) =>
       /\ probe'.st.agency = Col0(WalkRead)
       /\ probe'.st.bureau = None
       /\ probe'.st.account = None]_vars

\* A zero-indent, uppercase-initial, non-colon, non-header row of table 8.
C29_IsTieRow(row) ==
  /\ Col0(row) # "" /\ get_indent(Col(row, 0)) = 0
  /\ FyDigits(Col0(row)) = ""
  /\ ~EndsWithColon(Col0(row)) /\ ~EndsWithColon(RStripChars(Col0(row), DIGITS))
  /\ InStr(Ch(Col0(row), 1), UPPER)
  /\ \A w \in {"Agency", "Bureau", "Subsidy", "Cohort"} : ~InStr(w, Col0(row))

\* The row before the one read was blank; the heading rows are not.
C29_AfterBlank ==
  Len(probe.rows) > 0 /\ Col0(probe.rows[Len(probe.rows)]) = ""

C29_AsProgram ==
  /\ probe'.st.program = Col0(WalkRead)
  /\ probe'.st.agency = probe.st.agency
  /\ probe'.st.bureau = probe.st.bureau
  /\ probe'.st.account = probe.st.account

C29_AsAgency ==
  /\ probe'.st.agency = Col0(WalkRead)
  /\ probe'.st.bureau = None /\ probe'.st.account = None
  /\ probe'.st.program = None

\* C29: in parse_table8 such a row is treated as a program whenever a bureau
\* context is already active, and as a new agency (clearing bureau, account
\* and program) only when the immediately preceding row was blank; the first
\* row after the headings counts as following a blank.
C29_TieBreak ==
  [][(probe.fn = "walk" /\ probe.table = 8 /\ C29_IsTieRow(WalkRead)) =>
       /\ probe.st.bureau # None => C29_AsProgram
       /\ C29_AsAgency => (C29_AfterBlank \/ Len(probe.rows) = 0)]_vars

\* The key of a record or of a context of parse_table8.
C30_Key(r) == <<r.agency, r.bureau, r.account, r.program>>

C30_IsFy(row) == Col0(row) # "" /\ FyDigits(Col0(row)) # ""

\* A bureau or account label of table 8: a colon, indent at most 3.
C30_IsContextLabel(row) ==
  /\ Col0(row) # "" /\ ~C30_IsFy(row)
  /\ EndsWithColon(Col0(row)) /\ get_indent(Col(row, 0)) <= 3

\* The records with the key of the context st.
C30_Of(progs, st) ==
  {k \in 1..Len(progs) : C30_Key(progs[k]) = C30_Key(st)}

\* The cohort row just read was attached to the record of the context that
\* was active, after the cohorts that record had; nothing else has changed.
C30_Attached ==
  /\ Cardinality(C30_Of(probe'.st.programs, probe.st)) = 1
  /\ \A k \in C30_Of(probe'.st.programs, probe.st) :
       \E old \in {IF C30_Of(probe.st.programs, probe.st) = {} THEN <<>>
                   ELSE probe.st.programs[k].cohorts} :
         /\ Len(probe'.st.programs[k].cohorts) = Len(old) + 1
         /\ SubSeq(probe'.st.programs[k].cohorts, 1, Len(old)) = old
         /\ probe'.st.programs[k].cohorts[Len(old) + 1].row = 2 + Len(probe.rows)
         /\ probe'.st.programs[k].cohorts[Len(old) + 1].cohort_year = 2020
  /\ \A k \in 1..Len(probe.st.programs) :
       k \notin C30_Of(probe.st.programs, probe.st)
         => probe'.st.programs[k] = probe.st.programs[k]
  /\ Len(probe'.st.programs) =
       Len(probe.st.programs)
         + (IF C30_Of(probe.st.programs, probe.st) = {} THEN 1 ELSE 0)

\* No bureau or account label lies between the cohort row at position n and
\* the row before it that named its program.
C30_UnderItsProgram(n) ==
  \E m \in 1..(n - 1) :
    /\ ~C30_IsFy(probe'.rows[m]) /\ ~C30_IsContextLabel(probe'.rows[m])
    /\ Col0(probe'.rows[m]) # ""
    /\ \A j \in (m + 1)..(n - 1) :
         C30_IsFy(probe'.rows[j]) \/ Col0(probe'.rows[j]) = ""

\* C30: in parse_table8 every cohort (FY) row is attached to the record whose
\* key is the context active at that row; FY rows seen while no program is
\* active are dropped; every agency, bureau or account label clears the
\* current program, so that a cohort is never attached to a program of an
\* earlier agency, bureau or account; and the output holds exactly one record
\* per distinct key, with the cohorts of repeated occurrences in row order.
C30_CohortsFollowContext ==
  [][(probe.fn = "walk" /\ probe.table = 8) =>
       /\ C30_IsFy(WalkRead) =>
            IF probe.st.program = None
            THEN probe'.st.programs = probe.st.programs
            ELSE C30_Attached
       /\ ~C30_IsFy(WalkRead) => probe'.st.programs = probe.st.programs
       /\ C30_IsContextLabel(WalkRead) => probe'.st.program = None
       /\ (\/ probe'.st.agency # probe.st.agency
           \/ probe'.st.bureau # probe.st.bureau
           \/ probe'.st.account # probe.st.account)
            => probe'.st.program = None
       /\ \A k, l \in 1..Len(probe'.st.programs) :
            C30_Key(probe'.st.programs[k]) = C30_Key(probe'.st.programs[l])
              => k = l
       /\ \A k \in 1..Len(probe'.st.programs) :
            \A i \in 1..Len(probe'.st.programs[k].cohorts) :
              /\ C30_UnderItsProgram(probe'.st.programs[k].cohorts[i].row - 1)
              /\ \A j \in 1..(i - 1) :
                   probe'.st.programs[k].cohorts[j].row
                     < probe'.st.programs[k].cohorts[i].row]_vars

\* A cohort row was attached to a program; then came a bureau or account
\* label, and the cohort row after it was dropped.
C30_Witness ==
  /\ probe.fn = "walk" /\ probe.table = 8
  /\ Len(probe.rows) = 4
  /\ C30_IsFy(probe.rows[2]) /\ C30_IsContextLabel(probe.rows[3])
  /\ C30_IsFy(probe.rows[4])
  /\ Len(probe.st.programs) = 1
  /\ Len(probe.st.programs[1].cohorts) = 1
  /\ probe.st.program = None

\* C31: parse_value of parse_table6 agrees with parse_value of parse_table2
\* on numeric input: for every string that denotes a decimal number it
\* returns the float the string denotes, and a Table 6 program row whose
\* subsidy-rate cell is such a string is emitted with that rate, not dropped.
C31_NumericAgrees ==
  (probe.fn = "numeric" /\ probe.out6 # <<>>) =>
    /\ probe.out6 = <<Float(FloatValue(probe.val))>>
    /\ probe.out2 # <<>> => probe.out6 = probe.out2
    /\ Len(probe.st.programs) = 1
    /\ probe.st.programs[1].subsidy_rate_percent = Float(FloatValue(probe.val))

\* The normalized fields of the program that was classified.
C32_Bureau == sector_norm(OrEmpty(probe.args[2]))

C32_Agency == sector_norm(OrEmpty(probe.args[1]))

C32_NoOverride ==
  \A i \in 1..Len(_PROGRAM_OVERRIDES) :
    /\ ~InStr(_PROGRAM_OVERRIDES[i][1], sector_norm(OrEmpty(probe.args[4])))
    /\ ~InStr(_PROGRAM_OVERRIDES[i][1], sector_norm(OrEmpty(probe.args[3])))

C32_NoBureauRule ==
  \A i \in 1..Len(_BUREAU_RULES) :
    ~InStr(sector_norm(_BUREAU_RULES[i][1]), C32_Bureau) \/ C32_Bureau = ""

\* C32: when no program override matches, a program whose normalized bureau
\* equals a key of _BUREAU_RULES is classified with that key's sector,
\* whatever the agency is; and when the bureau matches no bureau rule, a
\* program whose normalized agency equals a key of _AGENCY_RULES is
\* classified with that key's sector.
C32_ExactRules ==
  (probe.fn = "classify" /\ probe.out # <<>> /\ C32_NoOverride) =>
    /\ \A i \in 1..Len(_BUREAU_RULES) :
         C32_Bureau = _BUREAU_RULES[i][1] => probe.out = <<_BUREAU_RULES[i][2]>>
    /\ C32_NoBureauRule =>
         \A i \in 1..Len(_AGENCY_RULES) :
           C32_Agency = _AGENCY_RULES[i][1]
             => probe.out = <<_AGENCY_RULES[i][2]>>

\* A bureau that is a key and holds another key as a substring, classified
\* under an agency whose rule names another sector.
C32_Witness ==
  /\ probe.fn = "classify" /\ probe.out = <<"housing">> /\ C32_NoOverride
  /\ C32_Bureau = "public and indian housing programs"
  /\ C32_Agency = "department of agriculture"

\* The (name, year) observations of the identity pid, absorbed ones
\* included: the register calls with a name and a year whose tuple stands
\* for pid now.
C33_Observed(pid) ==
  {i \in 1..Len(calls) :
     /\ calls[i].t[4] # "" /\ calls[i].year # NoneYear
     /\ get_id(Reg, calls[i].t[1], calls[i].t[2], calls[i].t[3],
               calls[i].t[4]) = pid}

\* C33: after finalize_canonical_names every live identity that has a
\* (name, year) observation has as canonical_name a name variant whose latest
\* observed budget year is the maximum over all its variants, variants
\* absorbed by merges included; the name is a member of name_variants, and
\* the choice is deterministic: a second call chooses the same names.
C33_LatestName ==
  (probe.fn = "naming" /\ last.op = "finalize") =>
    /\ \A pid \in DOMAIN programs :
         C33_Observed(pid) # {} =>
           /\ \E k \in 1..Len(programs[pid].name_variants) :
                programs[pid].name_variants[k] = programs[pid].canonical_name
           /\ \E i \in C33_Observed(pid) :
                /\ calls[i].t[4] = programs[pid].canonical_name
                /\ \A j \in C33_Observed(pid) : calls[j].year <= calls[i].year
    /\ finalize_canonical_names(Reg).programs = programs

\* After a merge the canonical name was changed to the name of the later
\* year, which the absorbed identity had brought.
C33_Witness ==
  /\ probe.fn = "naming" /\ last.op = "finalize"
  /\ \E pid \in DOMAIN programs :
       /\ Len(programs[pid].name_variants) = 2
       /\ programs[pid].canonical_name = programs[pid].name_variants[2]
       /\ \E i, j \in C33_Observed(pid) :
            /\ calls[i].ret # calls[j].ret
            /\ calls[i].year < calls[j].year
            /\ calls[j].t[4] = programs[pid].canonical_name

\* C34: no extracted record is lost in the unified output: for every table
\* group, every record of every (year, table) source of the group whose tuple
\* resolves to a program_id is present in that program's per-year data, also
\* when two records of one budget year resolve to the same program_id.
C34_NoRecordLost ==
  (probe.fn = "build" /\ probe.pc = "done") =>
    \A recs \in {SourceRecords(probe.files, probe.all_data, 1)} :
    \A i \in 1..Len(recs) :
    \A pid \in {get_id(Reg, OrEmpty(recs[i][3].agency), OrEmpty(recs[i][3].bureau),
                       OrEmpty(recs[i][3].account), OrEmpty(recs[i][3].program))} :
    \A g \in 1..Len(TABLE_GROUPS) :
      (pid # None /\ recs[i][2] \in Range(TABLE_GROUPS[g].tables)) =>
        \E n \in 1..Len(probe.unified[g].programs) :
          /\ probe.unified[g].programs[n].program_id = pid
          /\ Decimal(recs[i][1]) \in DOMAIN probe.unified[g].programs[n].budget_years
          /\ probe.unified[g].programs[n].budget_years[Decimal(recs[i][1])]
               = RecData(recs[i][3], recs[i][2], TABLE_GROUPS[g])

\* The IDs that register returns for the calls seq[i..], made in that order
\* on the registry reg.
RECURSIVE C35_Rets(_, _, _)
C35_Rets(reg, seq, i) ==
  IF i > Len(seq) THEN <<>>
  ELSE CHOOSE out \in
         {<<r.ret>> \o C35_Rets(r.reg, seq, i + 1) :
            r \in {register(reg, seq[i].t[1], seq[i].t[2], seq[i].t[3],
                            seq[i].t[4], seq[i].year)}} : TRUE

C35_Permutations ==
  {f \in [1..Len(calls) -> 1..Len(calls)] :
     \A i, j \in 1..Len(calls) : f[i] = f[j] => i = j}

\* The alias-resolved canonical key of a tuple.
C35_Resolved(t) == AliasTable[KeyTable[t]]

\* C35: before reconcile, two registered tuples have the same program_id if
\* and only if their alias-resolved canonical keys are equal, and the
\* partition of the tuples into identities is the same for every permutation
\* of the registration sequence.
C35_PartitionByKey ==
  probe.fn = "order" =>
    /\ \A i, j \in 1..Len(calls) :
         calls[i].ret = calls[j].ret
           <=> C35_Resolved(calls[i].t) = C35_Resolved(calls[j].t)
    /\ \A f \in C35_Permutations :
       \A rets \in {C35_Rets(EmptyRegistry, [i \in 1..Len(calls) |-> calls[f[i]]], 1)} :
         \A i, j \in 1..Len(calls) :
           rets[i] = rets[j] <=> calls[f[i]].ret = calls[f[j]].ret

\* Three calls with three raw keys: two aliases of one program share an ID,
\* and a tuple with another resolved key has its own.
C35_Witness ==
  /\ probe.fn = "order" /\ Len(calls) = 3
  /\ calls[1].ret = calls[3].ret /\ calls[1].ret # calls[2].ret
  /\ KeyOf(calls[1].t[1], calls[1].t[2], calls[1].t[3], calls[1].t[4])
       # KeyOf(calls[3].t[1], calls[3].t[2], calls[3].t[3], calls[3].t[4])

\* C36: reconcile is idempotent: from any registry, for any subsidy_rates, a
\* second reconcile with the same subsidy_rates and tolerance directly after
\* the first performs zero merges, reports the same blocked_by_rates, and
\* leaves the key map and every identity as the first call left them.
C36_ReconcileIdempotent ==
  \A sr \in RateChoices(Reg) :
    \A r1 \in {reconcile(Reg, sr, RATE_TOLERANCE)} :
      \A r2 \in {reconcile(r1.reg, sr, RATE_TOLERANCE)} :
        /\ r2.ret.merges = 0
        /\ r2.ret.blocked_by_rates = r1.ret.blocked_by_rates
        /\ r2.ret.programs_after = r1.ret.programs_after
        /\ r2.reg.key_to_id = r1.reg.key_to_id
        /\ r2.reg.programs = r1.reg.programs

\* A reconcile has merged one pair and blocked another, and a second
\* reconcile of the registry it left still meets the blocked pair.
C36_Witness ==
  /\ last.op = "reconcile"
  /\ last.ret.merges >= 1
  /\ last.ret.blocked_by_rates >= 1
  /\ \E sr \in RateChoices(Reg) :
       reconcile(Reg, sr, RATE_TOLERANCE).ret.blocked_by_rates >= 1

\* The identities that the reconcile from reg to after merged into pid: the
\* ones gone from after whose keys now lead to pid.
C37_MergedInto(reg, after, pid) ==
  {q \in DOMAIN reg.programs \ DOMAIN after.programs :
     \E k \in DOMAIN reg.key_to_id :
       reg.key_to_id[k] = q /\ after.key_to_id[k] = pid}

\* The tuple new is old with elements appended, all of them from more.
C37_Grown(old, new, more) ==
  /\ Len(new) >= Len(old)
  /\ SubSeq(new, 1, Len(old)) = old
  /\ Range(new) = Range(old) \cup more

\* The name->year map new has the names of old in their places, none with an
\* earlier year, and after them names of the merged identities only.
C37_NymGrown(old, new, more) ==
  /\ Len(new) >= Len(old)
  /\ \A i \in 1..Len(old) : new[i][1] = old[i][1] /\ new[i][2] >= old[i][2]
  /\ \A i \in 1..Len(new) :
       new[i] \in Range(old) \/ \E m \in more : new[i] \in Range(m)

\* What reconcile from reg to after left of the surviving identity pid.
C37_Kept(reg, after, pid) ==
  \A old \in {reg.programs[pid]} : \A new \in {after.programs[pid]} :
    \A src \in {{reg.programs[q] : q \in C37_MergedInto(reg, after, pid)}} :
      /\ src = {} => new = old
      /\ new.program_id = old.program_id
      /\ new.agency = old.agency
      /\ new.bureau = old.bureau
      /\ new.account = old.account
      /\ new.canonical_key = old.canonical_key
      /\ new.canonical_name = old.canonical_name
      /\ DOMAIN new = DOMAIN old
      /\ C37_Grown(old.budget_years_seen, new.budget_years_seen,
                   UNION {Range(m.budget_years_seen) : m \in src})
      /\ C37_Grown(old.name_variants, new.name_variants,
                   UNION {Range(m.name_variants) : m \in src})
      /\ C37_Grown(old.key_variants, new.key_variants,
                   UNION {Range(m.key_variants) : m \in src})
      /\ C37_NymGrown(old.name_year_map, new.name_year_map,
                      {m.name_year_map : m \in src})

\* C37: reconcile changes nothing outside what it merges: an identity that
\* absorbed no other one (alone in its fuzzy group, or blocked) keeps every
\* field; a target keeps program_id, agency, bureau, account, canonical_key
\* and canonical_name, and its variant tuples, its years and its name->year
\* map only grow, by what the merged identities had; the key map keeps its
\* keys, and only the keys of a merged identity change, to its target, which
\* is in the same fuzzy group; identities are only removed, and only from
\* groups of two or more; next_id stays.
C37_ReconcileFrame ==
  \A sr \in RateChoices(Reg) :
    \A after \in {reconcile(Reg, sr, RATE_TOLERANCE).reg} :
      /\ after.next_id = next_id
      /\ DOMAIN after.programs \subseteq Live
      /\ \A pid \in DOMAIN after.programs : C37_Kept(Reg, after, pid)
      /\ DOMAIN after.key_to_id = DOMAIN key_to_id
      /\ \A k \in DOMAIN key_to_id :
           IF key_to_id[k] \in DOMAIN after.programs
           THEN after.key_to_id[k] = key_to_id[k]
           ELSE /\ after.key_to_id[k] \in DOMAIN after.programs
                /\ FuzzyKey(programs[after.key_to_id[k]])
                     = FuzzyKey(programs[key_to_id[k]])

\* A reconcile merged one identity into a target, whose variant tuples grew
\* while its name stayed, and left another identity of the group blocked.
C37_Witness ==
  /\ last.op = "reconcile"
  /\ last.ret.merges >= 1
  /\ last.ret.blocked_by_rates >= 1
  /\ \E pid \in Live : /\ Len(programs[pid].name_variants) >= 2
                       /\ Len(programs[pid].key_variants) >= 2
                       /\ programs[pid].canonical_name = programs[pid].name_variants[1]

\* C38: the identity normalizers are idempotent: the program-component
\* normalization of normalize_program_key applied to its own output returns
\* that output, _apply_aliases applied to a resolved key returns that key,
\* and _normalize_fuzzy applied to its own output returns that output.
C38_Idempotent ==
  probe.fn = "idem" =>
    /\ Len(probe.prog) = 2 => probe.prog[2] = probe.prog[1]
    /\ Len(probe.key) = 2 => probe.key[2] = probe.key[1]
    /\ Len(probe.fuzzy) = 2 => probe.fuzzy[2] = probe.fuzzy[1]

\* C39: in every reachable registry state, for every key k of the key->id
\* map the alias-resolved form of k is in the map too and maps to the same
\* ID; so no register call meets a raw key that is known while its resolved
\* key is unknown (the second branch of register).
C39_ResolvedKeysAgree ==
  /\ \A k \in DOMAIN key_to_id :
       \A r \in {ResolvedOf(k)} :
         r \in DOMAIN key_to_id /\ key_to_id[r] = key_to_id[k]
  /\ \A t \in AliasTuples :
       \A raw \in {KeyTable[t]} : \A r \in {AliasTable[raw]} :
         ~(r \notin DOMAIN key_to_id /\ raw # r /\ raw \in DOMAIN key_to_id)

\* A reconcile merged two identities that were each entered under a raw and
\* a resolved key: four keys lead to the target, two of them raw.
C39_Witness ==
  /\ probe.fn = "alias"
  /\ last.op = "reconcile"
  /\ last.ret.merges >= 1
  /\ \E pid \in Live :
       /\ Cardinality({k \in DOMAIN key_to_id : key_to_id[k] = pid}) >= 4
       /\ Cardinality({k \in DOMAIN key_to_id :
                         key_to_id[k] = pid /\ ResolvedOf(k) # k}) >= 2

\* ------------------------------------------------------------ specification

Next == Register \/ GetId \/ Reconcile \/ Finalize

Spec == Init /\ [][Next]_vars
====
